---- MODULE Spec2Model ----
(***************************************************************************)
(* Model of the prompt assembly server: the template renderer              *)
(* (context-engine/src/lib.rs), the variable resolver registry             *)
(* (server-rs/src/resolvers.rs), the node graph orderer and the dataset    *)
(* replay recorder (server-rs/src/runs.rs), and the preview / variable     *)
(* test handlers that resolve variables (server-rs/src/lib.rs,             *)
(* server-rs/src/variable_library.rs).                                     *)
(*                                                                         *)
(* Strings that the code scans, trims, compares or concatenates are        *)
(* sequences of UTF-8 bytes (0..255).  Enumerations that the code only     *)
(* compares for equality ("dynamic", "succeeded", trace codes) are TLA+    *)
(* strings.                                                                *)
(***************************************************************************)
EXTENDS Integers, Sequences, FiniteSets, TLC

(***************************************************************************)
(* Byte strings                                                            *)
(***************************************************************************)

\* str::trim strips Unicode White_Space; the alphabets used here contain no
\* non-ASCII white space, so the ASCII members decide.
IsWs(b) == b \in {9, 10, 11, 12, 13, 32}

FirstNonWs(s) ==
    IF \A i \in 1..Len(s) : IsWs(s[i]) THEN Len(s) + 1
    ELSE CHOOSE i \in 1..Len(s) : ~IsWs(s[i]) /\ \A j \in 1..(i - 1) : IsWs(s[j])

LastNonWs(s) ==
    IF \A i \in 1..Len(s) : IsWs(s[i]) THEN 0
    ELSE CHOOSE i \in 1..Len(s) : ~IsWs(s[i]) /\ \A j \in (i + 1)..Len(s) : IsWs(s[j])

\* str::trim
Trim(s) == SubSeq(s, FirstNonWs(s), LastNonWs(s))

\* str::starts_with
StartsWith(s, p) == Len(p) <= Len(s) /\ SubSeq(s, 1, Len(p)) = p

\* str::find: 1-based index of the first occurrence of p in s, 0 when absent
FindSub(s, p) ==
    LET hits == {i \in 1..(Len(s) - Len(p) + 1) : SubSeq(s, i, i + Len(p) - 1) = p}
    IN  IF hits = {} THEN 0 ELSE CHOOSE i \in hits : \A j \in hits : i <= j

\* str::contains
Contains(s, p) == FindSub(s, p) # 0

\* str::trim_start_matches(p): strips every leading repetition of p
RECURSIVE TrimStartMatches(_, _)
TrimStartMatches(s, p) ==
    IF p # <<>> /\ StartsWith(s, p)
    THEN TrimStartMatches(SubSeq(s, Len(p) + 1, Len(s)), p)
    ELSE s

\* Ord for String: lexicographic on bytes
StrLess(a, b) ==
    \E k \in 1..(Len(b)) :
        /\ k <= Len(a) + 1
        /\ SubSeq(a, 1, k - 1) = SubSeq(b, 1, k - 1)
        /\ (k = Len(a) + 1 \/ a[k] < b[k])

StrLeq(a, b) == a = b \/ StrLess(a, b)

\* u8::to_ascii_lowercase over a str
ToAsciiLowercase(s) ==
    [i \in 1..Len(s) |-> IF s[i] >= 65 /\ s[i] <= 90 THEN s[i] + 32 ELSE s[i]]

\* [String]::join
RECURSIVE Join(_, _)
Join(parts, sep) ==
    IF parts = <<>> THEN <<>>
    ELSE IF Len(parts) = 1 THEN parts[1]
    ELSE parts[1] \o sep \o Join(Tail(parts), sep)

\* Vec<String>::sort (the result of sorting strings by Ord does not depend
\* on the algorithm)
RECURSIVE InsertSorted(_, _)
InsertSorted(sorted, x) ==
    IF sorted = <<>> THEN <<x>>
    ELSE IF StrLess(x, sorted[1]) THEN <<x>> \o sorted
    ELSE <<sorted[1]>> \o InsertSorted(Tail(sorted), x)

RECURSIVE SortStrings(_)
SortStrings(xs) ==
    IF xs = <<>> THEN <<>>
    ELSE InsertSorted(SortStrings(SubSeq(xs, 1, Len(xs) - 1)), xs[Len(xs)])

\* Vec::dedup: removes consecutive repeats
RECURSIVE Dedup(_)
Dedup(xs) ==
    IF Len(xs) <= 1 THEN xs
    ELSE IF xs[1] = xs[2] THEN Dedup(Tail(xs))
    ELSE <<xs[1]>> \o Dedup(Tail(xs))

\* u64 / u128 to_string: decimal digits
RECURSIVE ToDecimal(_)
ToDecimal(n) ==
    IF n < 10 THEN <<48 + n>>
    ELSE ToDecimal(n \div 10) \o <<48 + (n % 10)>>

(***************************************************************************)
(* Template renderer (context-engine/src/lib.rs)                           *)
(***************************************************************************)

\* `bytes[i] as char` pushed onto a String: the byte is taken as the code
\* point U+0000..U+00FF and encoded as UTF-8
PushByteAsChar(b) ==
    IF b < 128 THEN <<b>> ELSE <<192 + (b \div 64), 128 + (b % 64)>>

\* the inner while loop of interpolate_template; i is the 0-based index
RECURSIVE TokenEnd(_, _)
TokenEnd(t, i) ==
    IF i + 1 < Len(t) /\ ~(t[i + 1] = 125 /\ t[i + 2] = 125)
    THEN TokenEnd(t, i + 1)
    ELSE i

\* a slip that would report a token without a name as missing and drop the
\* text from an opening that is never closed
RECURSIVE InterpScanStrict(_, _, _, _, _)
InterpScanStrict(t, variables, i, out, missing) ==
    IF i >= Len(t) THEN <<out, missing>>
    ELSE IF t[i + 1] = 123 /\ i + 1 < Len(t) /\ t[i + 2] = 123
    THEN LET j == TokenEnd(t, i + 2)
         IN  IF j + 1 >= Len(t)
             THEN <<out, missing>>
             ELSE LET name == Trim(SubSeq(t, i + 3, j))
                      placeholder == SubSeq(t, i + 1, j + 2)
                  IN  IF name \in DOMAIN variables
                      THEN InterpScanStrict(t, variables, j + 2, out \o variables[name], missing)
                      ELSE InterpScanStrict(t, variables, j + 2, out \o placeholder,
                                            Append(missing, name))
    ELSE InterpScanStrict(t, variables, i + 1, out \o PushByteAsChar(t[i + 1]), missing)

\* the outer while loop of interpolate_template; i is the 0-based index
RECURSIVE InterpScan(_, _, _, _, _)
InterpScan(t, variables, i, out, missing) ==
    IF i >= Len(t) THEN <<out, missing>>
    ELSE IF t[i + 1] = 123 /\ i + 1 < Len(t) /\ t[i + 2] = 123
    THEN LET start == i
             name_start == i + 2
             j == TokenEnd(t, i + 2)
         IN  IF j + 1 >= Len(t)
             THEN <<out \o SubSeq(t, start + 1, Len(t)), missing>>
             ELSE LET name == Trim(SubSeq(t, name_start + 1, j))
                      placeholder == SubSeq(t, start + 1, j + 2)
                  IN  IF name = <<>>
                      THEN InterpScan(t, variables, j + 2, out \o placeholder, missing)
                      ELSE IF name \in DOMAIN variables
                      THEN InterpScan(t, variables, j + 2, out \o variables[name], missing)
                      ELSE InterpScan(t, variables, j + 2, out \o placeholder,
                                      Append(missing, name))
    ELSE InterpScan(t, variables, i + 1, out \o PushByteAsChar(t[i + 1]), missing)

\* a slip that would report the missing names as the scan met them
InterpolateUnsorted(template, variables) ==
    InterpScan(template, variables, 0, <<>>, <<>>)

\* a slip that would scan the substituted output once more
InterpolateRescan(template, variables) ==
    LET r == InterpScan(template, variables, 0, <<>>, <<>>)
        again == InterpScan(r[1], variables, 0, <<>>, <<>>)
    IN  <<again[1], Dedup(SortStrings(again[2]))>>

\* returns <<body, missing_variables>>
interpolate_template(template, variables) ==
    LET r == InterpScan(template, variables, 0, <<>>, <<>>)
    IN  <<r[1], Dedup(SortStrings(r[2]))>>

\* "缺失变量：" followed by the names joined by ", "
MissingVariableMessage(missing) ==
    <<231, 188, 186, 229, 164, 177, 229, 143, 152, 233, 135, 143, 239, 188, 154>>
        \o Join(missing, <<44, 32>>)

\* a slip that would put the header in front of every style
RenderSegmentAlwaysLabeled(node, variables, output_style) ==
    LET r == interpolate_template(node.content, variables)
        rendered == <<45, 45, 45, 32>> \o node.label \o <<32, 45, 45, 45, 10>> \o r[1]
    IN  [nodeId |-> node.id, label |-> node.label, kind |-> node.kind,
         template |-> node.content, rendered |-> rendered,
         missingVariables |-> r[2],
         messages |-> IF r[2] = <<>> THEN <<>>
                      ELSE << [severity |-> "warn", code |-> "missing_variable",
                               message |-> MissingVariableMessage(r[2])] >>]

\* a slip that would leave the missing variables without their message
RenderSegmentNoMessage(node, variables, output_style) ==
    LET r == interpolate_template(node.content, variables)
        rendered == IF output_style = "plain" THEN r[1]
                    ELSE <<45, 45, 45, 32>> \o node.label \o <<32, 45, 45, 45, 10>> \o r[1]
    IN  [nodeId |-> node.id, label |-> node.label, kind |-> node.kind,
         template |-> node.content, rendered |-> rendered,
         missingVariables |-> r[2], messages |-> <<>>]

\* the body of the per-node loop of render_with_trace
RenderSegment(node, variables, output_style) ==
    LET r == interpolate_template(node.content, variables)
        body == r[1]
        missing_variables == r[2]
        messages == IF missing_variables # <<>>
                    THEN << [severity |-> "warn", code |-> "missing_variable",
                             message |-> MissingVariableMessage(missing_variables)] >>
                    ELSE <<>>
        rendered == IF output_style = "plain" THEN body
                    ELSE <<45, 45, 45, 32>> \o node.label \o <<32, 45, 45, 45, 10>> \o body
    IN  [nodeId |-> node.id, label |-> node.label, kind |-> node.kind,
         template |-> node.content, rendered |-> rendered,
         missingVariables |-> missing_variables, messages |-> messages]

\* a slip that would return the joined string as it is
RenderWithTraceUntrimmed(nodes, variables, output_style, run_id, created_at) ==
    LET segments == [k \in 1..Len(nodes) |-> RenderSegment(nodes[k], variables, output_style)]
        full_segments == [k \in 1..Len(nodes) |-> segments[k].rendered]
    IN  [runId |-> run_id, createdAt |-> created_at, outputStyle |-> output_style,
         text |-> Join(full_segments, <<10, 10>>),
         segments |-> segments, messages |-> <<>>]

render_with_trace(nodes, variables, output_style, run_id, created_at) ==
    LET segments == [k \in 1..Len(nodes) |-> RenderSegment(nodes[k], variables, output_style)]
        full_segments == [k \in 1..Len(nodes) |-> segments[k].rendered]
    IN  [runId |-> run_id, createdAt |-> created_at, outputStyle |-> output_style,
         text |-> Trim(Join(full_segments, <<10, 10>>)),
         segments |-> segments, messages |-> <<>>]

(***************************************************************************)
(* Node graph orderer (server-rs/src/runs.rs)                              *)
(***************************************************************************)

\* the keys of a HashMap, as a sorted Vec (iter().collect() followed by sort())
RECURSIVE SortedKeys(_)
SortedKeys(S) ==
    IF S = {} THEN <<>>
    ELSE LET m == CHOOSE x \in S : \A y \in S : StrLeq(x, y)
         IN  <<m>> \o SortedKeys(S \ {m})

\* by_id: HashMap<String, StoredFlowNode>; a later node with the same id
\* replaces the earlier one
ById(nodes) ==
    LET ids == {nodes[k].id : k \in 1..Len(nodes)}
    IN  [id \in ids |->
            nodes[CHOOSE k \in 1..Len(nodes) :
                     nodes[k].id = id /\ \A l \in (k + 1)..Len(nodes) : nodes[l].id # id]]

\* the loop over edges: in-degrees and successor lists, edges that name an
\* unknown id skipped
RECURSIVE EdgeScan(_, _, _, _)
EdgeScan(edges, k, indeg, out) ==
    IF k > Len(edges) THEN [indeg |-> indeg, out |-> out]
    ELSE LET e == edges[k]
         IN  IF e.source \notin DOMAIN indeg \/ e.target \notin DOMAIN indeg
             THEN EdgeScan(edges, k + 1, indeg, out)
             ELSE EdgeScan(edges, k + 1,
                           [indeg EXCEPT ![e.target] = @ + 1],
                           [out EXCEPT ![e.source] = Append(@, e.target)])

\* a slip that would leave the ready list as pushed, without the sort
RECURSIVE RelaxUnsorted(_, _, _)
RelaxUnsorted(nexts, indeg, ready) ==
    IF nexts = <<>> THEN [indeg |-> indeg, ready |-> ready]
    ELSE LET to == nexts[1]
             d == IF indeg[to] = 0 THEN 0 ELSE indeg[to] - 1
             indeg2 == [indeg EXCEPT ![to] = d]
         IN  IF d = 0
             THEN RelaxUnsorted(Tail(nexts), indeg2, Append(ready, to))
             ELSE RelaxUnsorted(Tail(nexts), indeg2, ready)

\* `for to in nexts`: decrement, and push onto ready (kept sorted) at zero
RECURSIVE Relax(_, _, _)
Relax(nexts, indeg, ready) ==
    IF nexts = <<>> THEN [indeg |-> indeg, ready |-> ready]
    ELSE LET to == nexts[1]
             d == IF indeg[to] = 0 THEN 0 ELSE indeg[to] - 1
             indeg2 == [indeg EXCEPT ![to] = d]
         IN  IF d = 0
             THEN Relax(Tail(nexts), indeg2, SortStrings(Append(ready, to)))
             ELSE Relax(Tail(nexts), indeg2, ready)

\* `while let Some(id) = ready.first()`
RECURSIVE Kahn(_, _, _, _, _)
Kahn(ready, indeg, out, by_id, result) ==
    IF ready = <<>> THEN result
    ELSE LET id == ready[1]
             st == Relax(SortStrings(out[id]), indeg, Tail(ready))
         IN  Kahn(st.ready, st.indeg, out, by_id, Append(result, by_id[id]))

\* fallback.sort_by(|a, b| a.id.cmp(&b.id)): a stable sort
RECURSIVE InsertNodeById(_, _)
InsertNodeById(sorted, n) ==
    IF sorted = <<>> THEN <<n>>
    ELSE IF StrLess(n.id, sorted[1].id) THEN <<n>> \o sorted
    ELSE <<sorted[1]>> \o InsertNodeById(Tail(sorted), n)

RECURSIVE SortNodesById(_)
SortNodesById(nodes) ==
    IF nodes = <<>> THEN <<>>
    ELSE InsertNodeById(SortNodesById(SubSeq(nodes, 1, Len(nodes) - 1)), nodes[Len(nodes)])

\* a plausible slip: the fallback returns the nodes as given
FallbackUnsorted(nodes) == nodes

\* the fallback branch of topo_sort_nodes
Fallback(nodes) == SortNodesById(nodes)

topo_sort_nodes(nodes, edges) ==
    IF edges = <<>> THEN nodes
    ELSE LET by_id == ById(nodes)
             es == EdgeScan(edges, 1, [id \in DOMAIN by_id |-> 0],
                            [id \in DOMAIN by_id |-> <<>>])
             ready == SortedKeys({id \in DOMAIN by_id : es.indeg[id] = 0})
             result == Kahn(ready, es.indeg, es.out, by_id, <<>>)
         IN  IF Len(result) # Len(nodes) THEN Fallback(nodes) ELSE result

node_type_to_kind(node_type) ==
    CASE node_type = "system_prompt" -> "system"
      [] node_type = "user_input" -> "user"
      [] node_type = "messages" -> "assistant"
      [] node_type = "tools" -> "tool"
      [] node_type = "memory" -> "memory"
      [] node_type = "retrieval" -> "retrieval"
      [] OTHER -> "text"

\* the map from StoredFlowNode to EngineNode in replay_dataset
EngineNodes(sorted_nodes) ==
    [k \in 1..Len(sorted_nodes) |->
        [id |-> sorted_nodes[k].id, label |-> sorted_nodes[k].label,
         kind |-> node_type_to_kind(sorted_nodes[k].node_type),
         content |-> sorted_nodes[k].content]]

(***************************************************************************)
(* Collaborators of the resolvers: the session store, the datasource store *)
(* and the SQL databases.  Their content is fixed; the code under test     *)
(* only reads it.                                                          *)
(***************************************************************************)

\* data_dir/sessions: one session "s" holding the message user: "hi"
Sessions == (<<115>> :> << [role |-> <<117, 115, 101, 114>>, content |-> <<104, 105>>] >>)

\* data_dir/datasources, decrypted: the datasources "d" and "e" are the
\* database "sqlite://m", the datasource "n" holds the configuration "{}"
DataSources ==
    (   <<100>> :> <<115, 113, 108, 105, 116, 101, 58, 47, 47, 109>>
     @@ <<101>> :> <<115, 113, 108, 105, 116, 101, 58, 47, 47, 109>>
     @@ <<110>> :> <<123, 125>> )

\* data_dir/datasources, the stored fields the handlers read: "e" is stored
\* with allowSchema = false, "n" is no SQL datasource
DataSourceFiles ==
    (   <<100>> :> [driver |-> <<115, 113, 108, 105, 116, 101>>, allow_schema |-> TRUE]
     @@ <<101>> :> [driver |-> <<115, 113, 108, 105, 116, 101>>, allow_schema |-> FALSE]
     @@ <<110>> :> [driver |-> <<110, 101, 111, 52, 106>>, allow_schema |-> TRUE] )

\* the tables of each database
DatabaseTables == (<<115, 113, 108, 105, 116, 101, 58, 47, 47, 109>> :> << <<116>> >>)

\* a text of 20,002 bytes: 19,999 times "a", then the 3-byte character U+20AC
LongText == [i \in 1..19999 |-> 97] \o <<226, 130, 172>>

\* the databases, as the rows each query returns (column |-> value, every value
\* a text): "select a" returns the column a = "W", "select *" returns the
\* columns a = "W" and b = "R", "select l" returns the column l = LongText
Databases ==
    (<<115, 113, 108, 105, 116, 101, 58, 47, 47, 109>> :>
        (    <<115, 101, 108, 101, 99, 116, 32, 97>> :> << (<<97>> :> <<87>>) >>
          @@ <<115, 101, 108, 101, 99, 116, 32, 42>> :> << (<<97>> :> <<87>> @@ <<98>> :> <<82>>) >>
          @@ <<115, 101, 108, 101, 99, 116, 32, 108>> :> << (<<108>> :> LongText) >> ))

\* std::io::Error of a read of a file that does not exist
ErrNoSuchFile == <<78, 111, 32, 115, 117, 99, 104, 32, 102, 105, 108, 101, 32, 111, 114, 32, 100, 105, 114, 101, 99, 116, 111, 114, 121, 32, 40, 111, 115, 32, 101, 114, 114, 111, 114, 32, 50, 41>>

\* sqlx error of a connect to a sqlite file that does not exist
ErrUnableToOpen == <<101, 114, 114, 111, 114, 32, 114, 101, 116, 117, 114, 110, 101, 100, 32, 102, 114, 111, 109, 32, 100, 97, 116, 97, 98, 97, 115, 101, 58, 32, 40, 99, 111, 100, 101, 58, 32, 49, 52, 41, 32, 117, 110, 97, 98, 108, 101, 32, 116, 111, 32, 111, 112, 101, 110, 32, 100, 97, 116, 97, 98, 97, 115, 101, 32, 102, 105, 108, 101>>

\* sqlx error of a query the database rejects
ErrNoSuchTable == <<101, 114, 114, 111, 114, 32, 114, 101, 116, 117, 114, 110, 101, 100, 32, 102, 114, 111, 109, 32, 100, 97, 116, 97, 98, 97, 115, 101, 58, 32, 40, 99, 111, 100, 101, 58, 32, 49, 41, 32, 110, 111, 32, 115, 117, 99, 104, 32, 116, 97, 98, 108, 101, 58, 32, 116>>

Ok(value) == [ok |-> TRUE, value |-> value, err |-> <<>>]

Err(msg) == [ok |-> FALSE, value |-> <<>>, err |-> msg]

(***************************************************************************)
(* Resolution backends (server-rs/src/lib.rs)                              *)
(***************************************************************************)

\* str::parse::<usize>().unwrap_or(dflt): decimal digits after an optional '+'
RECURSIVE DigitsValue(_)
DigitsValue(s) ==
    IF s = <<>> THEN 0 ELSE 10 * DigitsValue(SubSeq(s, 1, Len(s) - 1)) + (s[Len(s)] - 48)

ParseUsizeOr(s, dflt) ==
    LET digits == IF s # <<>> /\ s[1] = 43 THEN Tail(s) ELSE s
    IN  IF digits # <<>> /\ \A i \in 1..Len(digits) : digits[i] >= 48 /\ digits[i] <= 57
        THEN DigitsValue(digits)
        ELSE dflt

Min(a, b) == IF a < b THEN a ELSE b

RoleTag(role) ==
    CASE role = <<117, 115, 101, 114>> -> <<91, 85, 115, 101, 114, 93>>
      [] role = <<97, 115, 115, 105, 115, 116, 97, 110, 116>> -> <<91, 65, 115, 115, 105, 115, 116, 97, 110, 116, 93>>
      [] role = <<115, 121, 115, 116, 101, 109>> -> <<91, 83, 121, 115, 116, 101, 109, 93>>
      [] role = <<116, 111, 111, 108>> -> <<91, 84, 111, 111, 108, 93>>
      [] OTHER -> role

RECURSIVE SessionLines(_)
SessionLines(msgs) ==
    IF msgs = <<>> THEN <<>>
    ELSE RoleTag(msgs[1].role) \o <<58, 32>> \o Trim(msgs[1].content) \o <<10>>
            \o SessionLines(Tail(msgs))

render_session_as_text(messages, max_messages) ==
    LET max == Min(max_messages, 200)
        slice == IF Len(messages) > max
                 THEN SubSeq(messages, Len(messages) - max + 1, Len(messages))
                 ELSE messages
    IN  Trim(SessionLines(slice))

load_session(id) ==
    IF id \in DOMAIN Sessions THEN Ok(Sessions[id]) ELSE Err(ErrNoSuchFile)

\* DATA_KEY is set; the stored url decrypts under it
decrypt_datasource_url(id) ==
    IF id \in DOMAIN DataSources THEN Ok(DataSources[id]) ELSE Err(ErrNoSuchFile)

query_any_rows(url, query) ==
    IF url \notin DOMAIN Databases THEN [ok |-> FALSE, rows |-> <<>>, err |-> ErrUnableToOpen]
    ELSE IF query \notin DOMAIN Databases[url]
    THEN [ok |-> FALSE, rows |-> <<>>, err |-> ErrNoSuchTable]
    ELSE [ok |-> TRUE, rows |-> Databases[url][query], err |-> <<>>]

\* `m.values().next()` on a HashMap<String, Value>: the iteration order of a
\* std HashMap is unspecified and differs between map instances (RandomState),
\* so any column's value can come first
FirstValues(row) == {row[c] : c \in DOMAIN row}

\* the set of results resolve_sql_value can return
resolve_sql_value(url, query0) ==
    LET query == Trim(query0)
        lower == ToAsciiLowercase(query)
    IN  IF ~(StartsWith(lower, <<115, 101, 108, 101, 99, 116>>) \/ StartsWith(lower, <<119, 105, 116, 104>>))
        THEN {Err(<<114, 101, 97, 100, 111, 110, 108, 121, 95, 114, 101, 113, 117, 105, 114, 101, 100>>)}
        ELSE LET r == query_any_rows(url, query)
             IN  IF ~r.ok THEN {Err(r.err)}
                 ELSE IF r.rows = <<>> \/ DOMAIN r.rows[1] = {} THEN {Ok(<<>>)}
                 ELSE {Ok(val) : val \in FirstValues(r.rows[1])}

\* built without the neo4j feature
resolve_neo4j_value(data_source_id, cypher) == {Err(<<102, 101, 97, 116, 117, 114, 101, 95, 110, 111, 116, 95, 101, 110, 97, 98, 108, 101, 100>>)}

\* built without the milvus feature
resolve_milvus_value(data_source_id, op) == {Err(<<102, 101, 97, 116, 117, 114, 101, 95, 110, 111, 116, 95, 101, 110, 97, 98, 108, 101, 100>>)}

(***************************************************************************)
(* Variable resolver registry (server-rs/src/resolvers.rs)                 *)
(***************************************************************************)

MAX_VALUE_BYTES == 20000

\* the value of `cut` after the loop over s.char_indices(): the largest
\* 0-based byte offset up to idx at which a character starts (offset 0 starts
\* the first character); the loop meets the offsets in ascending order, the
\* search below goes down from idx to the same offset
RECURSIVE LastCharIndex(_, _)
LastCharIndex(s, idx) ==
    IF idx = 0 THEN 0
    ELSE IF idx < Len(s) /\ (s[idx + 1] < 128 \/ s[idx + 1] >= 192) THEN idx
    ELSE LastCharIndex(s, idx - 1)

\* a slip that would cut at the budget wherever it falls
ClampAtBudget(s, max_bytes) ==
    IF Len(s) <= max_bytes THEN <<s, FALSE>> ELSE <<SubSeq(s, 1, max_bytes), TRUE>>

\* returns <<clamped, truncated>>
clamp_string(s, max_bytes) ==
    IF Len(s) <= max_bytes THEN <<s, FALSE>>
    ELSE LET cut == LastCharIndex(s, max_bytes)
         IN  IF cut = 0 THEN <<(<<>>), TRUE>> ELSE <<SubSeq(s, 1, cut), TRUE>>

classify_error_code(err) ==
    LET e == Trim(err)
    IN  IF e = <<114, 101, 115, 111, 108, 118, 101, 114, 95, 109, 105, 115, 115, 105, 110, 103>> THEN "resolver_missing"
        ELSE IF e = <<114, 101, 97, 100, 111, 110, 108, 121, 95, 114, 101, 113, 117, 105, 114, 101, 100>> THEN "readonly_required"
        ELSE IF e = <<102, 101, 97, 116, 117, 114, 101, 95, 110, 111, 116, 95, 101, 110, 97, 98, 108, 101, 100>> THEN "feature_not_enabled"
        ELSE IF e = <<117, 110, 115, 117, 112, 112, 111, 114, 116, 101, 100, 95, 111, 112>> THEN "unsupported_op"
        ELSE IF Contains(e, <<100, 101, 99, 114, 121, 112, 116, 32, 102, 97, 105, 108, 101, 100>>) \/ Contains(e, <<109, 105, 115, 115, 105, 110, 103, 32, 68, 65, 84, 65, 95, 75, 69, 89>>) THEN "decrypt_failed"
        ELSE IF Contains(e, <<228, 184, 141, 230, 148, 175, 230, 140, 129, 231, 154, 132, 32, 114, 101, 115, 111, 108, 118, 101, 114, 32, 115, 99, 104, 101, 109, 101>>) THEN "unsupported_scheme"
        ELSE IF Contains(e, <<114, 101, 108, 97, 116, 105, 118, 101, 32, 85, 82, 76, 32, 119, 105, 116, 104, 111, 117, 116, 32, 97, 32, 98, 97, 115, 101>>) \/ Contains(e, <<101, 114, 114, 111, 114, 32, 119, 105, 116, 104, 32, 99, 111, 110, 102, 105, 103, 117, 114, 97, 116, 105, 111, 110>>) THEN "invalid_url"
        ELSE IF Contains(e, <<117, 110, 97, 98, 108, 101, 32, 116, 111, 32, 111, 112, 101, 110, 32, 100, 97, 116, 97, 98, 97, 115, 101, 32, 102, 105, 108, 101>>) THEN "sqlite_open_failed"
        ELSE IF Contains(e, <<99, 111, 110, 110, 101, 99, 116, 105, 111, 110, 32, 114, 101, 102, 117, 115, 101, 100>>) \/ Contains(e, <<67, 111, 110, 110, 101, 99, 116, 105, 111, 110, 32, 114, 101, 102, 117, 115, 101, 100>>) THEN "connect_failed"
        ELSE "unknown"

resolve_chat(resolver, v) ==
    LET session_id == TrimStartMatches(resolver, <<99, 104, 97, 116, 58, 47, 47>>)
        requested == ParseUsizeOr(Trim(v.value), 20)
        max_messages == Min(requested, 200)
        s == load_session(session_id)
    IN  IF ~s.ok THEN {Err(s.err)}
        ELSE {Ok(render_session_as_text(s.value, max_messages))}

resolve_sql(resolver, v) ==
    IF Trim(v.value) = <<>> THEN {Err(<<83, 81, 76, 32, 228, 184, 141, 232, 131, 189, 228, 184, 186, 231, 169, 186>>)}
    ELSE LET url == decrypt_datasource_url(TrimStartMatches(resolver, <<115, 113, 108, 58, 47, 47>>))
         IN  IF ~url.ok THEN {Err(url.err)} ELSE resolve_sql_value(url.value, v.value)

resolve_sqlite(resolver, v) ==
    IF Trim(v.value) = <<>> THEN {Err(<<83, 81, 76, 32, 228, 184, 141, 232, 131, 189, 228, 184, 186, 231, 169, 186>>)}
    ELSE resolve_sql_value(resolver, v.value)

resolve_neo4j(resolver, v) ==
    IF Trim(v.value) = <<>> THEN {Err(<<67, 121, 112, 104, 101, 114, 32, 228, 184, 141, 232, 131, 189, 228, 184, 186, 231, 169, 186>>)}
    ELSE resolve_neo4j_value(TrimStartMatches(resolver, <<110, 101, 111, 52, 106, 58, 47, 47>>), v.value)

resolve_milvus(resolver, v) ==
    resolve_milvus_value(TrimStartMatches(resolver, <<109, 105, 108, 118, 117, 115, 58, 47, 47>>), v.value)

\* ResolverRegistry::new: the schemes of the dispatch table
RegistrySchemes == {<<99, 104, 97, 116>>, <<115, 113, 108>>, <<115, 113, 108, 105, 116, 101>>, <<110, 101, 111, 52, 106>>, <<109, 105, 108, 118, 117, 115>>}

\* "不支持的 resolver scheme：" followed by the scheme
UnsupportedSchemeError(scheme) == <<228, 184, 141, 230, 148, 175, 230, 140, 129, 231, 154, 132, 32, 114, 101, 115, 111, 108, 118, 101, 114, 32, 115, 99, 104, 101, 109, 101, 239, 188, 154>> \o scheme

\* ResolverRegistry::resolve: the set of results the dispatch can return
RegistryResolve(scheme, resolver, v) ==
    IF scheme \notin RegistrySchemes THEN {Err(UnsupportedSchemeError(scheme))}
    ELSE IF scheme = <<99, 104, 97, 116>> THEN resolve_chat(resolver, v)
    ELSE IF scheme = <<115, 113, 108>> THEN resolve_sql(resolver, v)
    ELSE IF scheme = <<115, 113, 108, 105, 116, 101>> THEN resolve_sqlite(resolver, v)
    ELSE IF scheme = <<110, 101, 111, 52, 106>> THEN resolve_neo4j(resolver, v)
    ELSE resolve_milvus(resolver, v)

\* resolver.split("://").next(): the text before the first "://"
SchemeOf(resolver) ==
    LET at == FindSub(resolver, <<58, 47, 47>>)
    IN  Trim(IF at = 0 THEN resolver ELSE SubSeq(resolver, 1, at - 1))

\* details of the trace message; durationMs and the message text are left out
Details(v, scheme, resolver, error_code, error_message, truncated) ==
    [variableId |-> v.id, variableName |-> v.name, type |-> v.type,
     scheme |-> scheme, resolver |-> resolver, errorCode |-> error_code,
     errorMessage |-> error_message, truncated |-> truncated]

\* one ResolveWithTrace for a backend result r
WithTrace(v, scheme, resolver, r) ==
    IF r.ok
    THEN LET c == clamp_string(r.value, MAX_VALUE_BYTES)
         IN  [result |-> Ok(c[1]),
              trace_message |-> [severity |-> "info", code |-> "variable_resolved",
                                 details |-> Details(v, scheme, resolver, "", <<>>, c[2])]]
    ELSE [result |-> r,
          trace_message |-> [severity |-> "warn", code |-> "variable_resolve_failed",
                             details |-> Details(v, scheme, resolver,
                                                 classify_error_code(r.err), r.err, FALSE)]]

\* the set of ResolveWithTrace values resolve_variable_with_trace can return
resolve_variable_with_trace(v) ==
    IF v.type # "dynamic"
    THEN LET c == clamp_string(v.value, MAX_VALUE_BYTES)
         IN  {[result |-> Ok(c[1]),
               trace_message |-> [severity |-> "info", code |-> "variable_static",
                                  details |-> Details(v, <<>>, <<>>, "", <<>>, c[2])]]}
    ELSE LET resolver == Trim(v.resolver)
         IN  IF resolver = <<>>
             THEN {[result |-> Err(<<114, 101, 115, 111, 108, 118, 101, 114, 95, 109, 105, 115, 115, 105, 110, 103>>),
                    trace_message |-> [severity |-> "warn", code |-> "variable_resolve_failed",
                                       details |-> Details(v, <<>>, <<>>, "resolver_missing",
                                                           <<114, 101, 115, 111, 108, 118, 101, 114, 95, 109, 105, 115, 115, 105, 110, 103>>, FALSE)]]}
             ELSE LET scheme == SchemeOf(resolver)
                  IN  {WithTrace(v, scheme, resolver, r) :
                          r \in RegistryResolve(scheme, resolver, v)}

\* the connections resolve_sql_value opens: none when the text is refused,
\* one to url for the trimmed query otherwise
resolve_sql_value_connects(url, query0) ==
    LET query == Trim(query0)
        lower == ToAsciiLowercase(query)
    IN  IF ~(StartsWith(lower, <<115, 101, 108, 101, 99, 116>>) \/ StartsWith(lower, <<119, 105, 116, 104>>))
        THEN <<>>
        ELSE << [url |-> url, query |-> query] >>

\* the connections resolve_variable_with_trace opens for the variable v
resolve_variable_connects(v) ==
    IF v.type # "dynamic" THEN <<>>
    ELSE LET resolver == Trim(v.resolver)
             scheme == SchemeOf(resolver)
         IN  IF resolver = <<>> \/ Trim(v.value) = <<>> THEN <<>>
             ELSE IF scheme = <<115, 113, 108>>
             THEN LET url == decrypt_datasource_url(TrimStartMatches(resolver, <<115, 113, 108, 58, 47, 47>>))
                  IN  IF ~url.ok THEN <<>> ELSE resolve_sql_value_connects(url.value, v.value)
             ELSE IF scheme = <<115, 113, 108, 105, 116, 101>>
             THEN resolve_sql_value_connects(resolver, v.value)
             ELSE <<>>

\* resolve_variable_value of the preview handler: the set of results
resolve_variable_value(v) ==
    IF v.type # "dynamic" THEN {Ok(v.value)}
    ELSE LET resolver == Trim(v.resolver)
         IN  IF StartsWith(resolver, <<99, 104, 97, 116, 58, 47, 47>>)
             THEN LET s == load_session(TrimStartMatches(resolver, <<99, 104, 97, 116, 58, 47, 47>>))
                  IN  IF ~s.ok THEN {Err(s.err)}
                      ELSE {Ok(render_session_as_text(s.value,
                                                      ParseUsizeOr(Trim(v.value), 20)))}
             ELSE IF StartsWith(resolver, <<115, 113, 108, 58, 47, 47>>) /\ Trim(v.value) # <<>>
             THEN LET url == decrypt_datasource_url(TrimStartMatches(resolver, <<115, 113, 108, 58, 47, 47>>))
                  IN  IF ~url.ok THEN {Err(url.err)}
                      ELSE resolve_sql_value(url.value, v.value)
             ELSE IF StartsWith(resolver, <<115, 113, 108, 105, 116, 101, 58, 47, 47>>) /\ Trim(v.value) # <<>>
             THEN resolve_sql_value(resolver, v.value)
             ELSE IF StartsWith(resolver, <<110, 101, 111, 52, 106, 58, 47, 47>>) /\ Trim(v.value) # <<>>
             THEN resolve_neo4j_value(TrimStartMatches(resolver, <<110, 101, 111, 52, 106, 58, 47, 47>>), v.value)
             ELSE IF StartsWith(resolver, <<109, 105, 108, 118, 117, 115, 58, 47, 47>>)
             THEN resolve_milvus_value(TrimStartMatches(resolver, <<109, 105, 108, 118, 117, 115, 58, 47, 47>>), v.value)
             ELSE {Ok(v.value)}

(***************************************************************************)
(* Dataset rows (serde_json::Value) and row overrides (server-rs/src/runs.rs) *)
(***************************************************************************)

JStr(s) == [t |-> "str", s |-> s, n |-> 0, m |-> <<>>]

JNum(n) == [t |-> "num", s |-> <<>>, n |-> n, m |-> <<>>]

JBool(v) == [t |-> "bool", s |-> <<>>, n |-> IF v THEN 1 ELSE 0, m |-> <<>>]

JNull == [t |-> "null", s |-> <<>>, n |-> 0, m |-> <<>>]

\* m: member name |-> value
JObj(m) == [t |-> "obj", s |-> <<>>, n |-> 0, m |-> m]

\* serde_json::to_string; the member names and texts used here need no escape
RECURSIVE ToJsonText(_)
ToJsonText(v) ==
    CASE v.t = "str" -> <<34>> \o v.s \o <<34>>
      [] v.t = "num" -> ToDecimal(v.n)
      [] v.t = "bool" -> IF v.n = 1 THEN <<116, 114, 117, 101>> ELSE <<102, 97, 108, 115, 101>>
      [] v.t = "null" -> <<110, 117, 108, 108>>
      [] OTHER ->
            LET keys == SortedKeys(DOMAIN v.m)
            IN  <<123>>
                \o Join([k \in 1..Len(keys) |->
                            <<34>> \o keys[k] \o <<34, 58>> \o ToJsonText(v.m[keys[k]])],
                        <<44>>)
                \o <<125>>

json_value_to_string(v) ==
    CASE v.t = "str" -> v.s
      [] v.t = "num" -> ToDecimal(v.n)
      [] v.t = "bool" -> IF v.n = 1 THEN <<116, 114, 117, 101>> ELSE <<102, 97, 108, 115, 101>>
      [] OTHER -> ToJsonText(v)

\* the members of obj whose name does not start with '_', as strings
OverridesOf(obj) ==
    LET keys == {k \in DOMAIN obj : ~(k # <<>> /\ k[1] = 95)}
    IN  [k \in keys |-> json_value_to_string(obj[k])]

\* returns [ok, map]
row_to_variable_overrides(row) ==
    IF row.t # "obj" THEN [ok |-> FALSE, map |-> <<>>]
    ELSE IF <<118, 97, 114, 105, 97, 98, 108, 101, 115>> \in DOMAIN row.m
    THEN LET vars == row.m[<<118, 97, 114, 105, 97, 98, 108, 101, 115>>]
         IN  IF vars.t # "obj" THEN [ok |-> FALSE, map |-> <<>>]
             ELSE [ok |-> TRUE, map |-> OverridesOf(vars.m)]
    ELSE [ok |-> TRUE, map |-> OverridesOf(row.m)]

(***************************************************************************)
(* Replay and digest recorder (server-rs/src/runs.rs)                      *)
(***************************************************************************)

\* base64(SHA-256(text)): the hash is not computed; the digest is a value
\* that is equal for equal texts and different for different texts
digest_text(text) == [sha256_base64_of |-> text]

missing_variables_count(trace) ==
    Cardinality({name \in UNION {{trace.segments[k].missingVariables[j] :
                                      j \in 1..Len(trace.segments[k].missingVariables)} :
                                  k \in 1..Len(trace.segments)} :
                    Trim(name) # <<>>})

\* format!("run_{}_{}", now_ms(), row_index)
RunId(ms, row_index) == <<114, 117, 110, 95>> \o ToDecimal(ms) \o <<95>> \o ToDecimal(row_index)

\* HashMap::insert
MapPut(m, k, v) == [x \in DOMAIN m \cup {k} |-> IF x = k THEN v ELSE m[x]]

\* the loop over project.state.variables: every sequence of ResolveWithTrace
\* values the sequential resolutions can produce
RECURSIVE ResolveAll(_)
ResolveAll(vs) ==
    IF vs = <<>> THEN {<<>>}
    ELSE {<<o>> \o rest : o \in resolve_variable_with_trace(vs[1]), rest \in ResolveAll(Tail(vs))}

\* resolved_map after the loop: only successful resolutions are inserted
RECURSIVE ResolvedMap(_, _, _)
ResolvedMap(vs, outs, k) ==
    IF k = 0 THEN <<>>
    ELSE LET m == ResolvedMap(vs, outs, k - 1)
         IN  IF outs[k].result.ok THEN MapPut(m, vs[k].name, outs[k].result.value) ELSE m

\* a slip that would let the resolved value win
MergeResolvedWins(resolved_map, overrides) ==
    [k \in DOMAIN resolved_map \cup DOMAIN overrides |->
        IF k \in DOMAIN resolved_map THEN resolved_map[k] ELSE overrides[k]]

\* `for (k, v) in overrides { resolved_map.insert(k, v) }`
MergeOverrides(resolved_map, overrides) ==
    [k \in DOMAIN resolved_map \cup DOMAIN overrides |->
        IF k \in DOMAIN overrides THEN overrides[k] ELSE resolved_map[k]]

Summary(record) ==
    [runId |-> record.runId, createdAt |-> record.createdAt, rowIndex |-> record.rowIndex,
     status |-> record.status, outputDigest |-> record.outputDigest,
     missingVariablesCount |-> record.missingVariablesCount]

\* the RunRecord of a row whose overrides cannot be read
FailedRecord(proj, ds, engine_nodes, row_index, run_id, created_at) ==
    LET trace == render_with_trace(engine_nodes, <<>>, "labeled", run_id, created_at)
    IN  [runId |-> run_id, createdAt |-> created_at, projectId |-> proj.id,
         datasetId |-> ds.id, rowIndex |-> row_index, status |-> "failed",
         outputDigest |-> digest_text(<<>>),
         missingVariablesCount |-> missing_variables_count(trace), trace |-> trace]

\* the RunRecord of a row with overrides, for the resolutions outs
SucceededRecord(proj, ds, engine_nodes, row_index, run_id, created_at, variables, outs) ==
    LET trace0 == render_with_trace(engine_nodes, variables, "labeled", run_id, created_at)
        trace == [trace0 EXCEPT !.messages =
                      @ \o [k \in 1..Len(outs) |-> outs[k].trace_message]]
    IN  [runId |-> run_id, createdAt |-> created_at, projectId |-> proj.id,
         datasetId |-> ds.id, rowIndex |-> row_index, status |-> "succeeded",
         outputDigest |-> digest_text(trace.text),
         missingVariablesCount |-> missing_variables_count(trace), trace |-> trace]

(***************************************************************************)
(* Bounds and input pools                                                  *)
(***************************************************************************)

\* number of milliseconds the clock can advance
MaxTicks == 1

\* longest node list and longest edge list given to the orderer
MaxTopoNodes == 3

MaxTopoEdges == 2

\* longest variable list of a preview request
MaxPreviewVars == 2

\* now_ms() at the start; four digits, as every now_ms() of one deployment
\* has the same number of digits
ClockBase == 1000

\* the replay requests in flight: the claims about repeated and concurrent
\* replays speak of two
Requests == {"r1", "r2"}

SeqsUpTo(S, n) == UNION {[1..k -> S] : k \in 0..n}

Var(id, name, type, value, resolver) ==
    [id |-> id, name |-> name, type |-> type, value |-> value, resolver |-> resolver]

\* n = "W", static
VStatic == Var(<<118, 49>>, <<110>>, "static", <<87>>, <<>>)

\* m = "R", static
VStaticM == Var(<<118, 50>>, <<109>>, "static", <<82>>, <<>>)

\* n, dynamic, resolver "bad://x"
VBadScheme == Var(<<118, 51>>, <<110>>, "dynamic", <<87>>, <<98, 97, 100, 58, 47, 47, 120>>)

\* n, dynamic, resolver "sqlite://m", value "select *" (two columns)
VSqlTwoColumns == Var(<<118, 52>>, <<110>>, "dynamic", <<115, 101, 108, 101, 99, 116, 32, 42>>, <<115, 113, 108, 105, 116, 101, 58, 47, 47, 109>>)

\* n, dynamic, resolver "sql://d", value "select a" (one column)
VSqlOneColumn == Var(<<118, 53>>, <<110>>, "dynamic", <<115, 101, 108, 101, 99, 116, 32, 97>>, <<115, 113, 108, 58, 47, 47, 100>>)

\* n, dynamic, resolver "chat://s", value "" (20 messages)
VChat == Var(<<118, 54>>, <<110>>, "dynamic", <<>>, <<99, 104, 97, 116, 58, 47, 47, 115>>)

\* n, dynamic, resolver "chat://q": no such session
VChatMissing == Var(<<118, 55>>, <<110>>, "dynamic", <<>>, <<99, 104, 97, 116, 58, 47, 47, 113>>)

\* m, dynamic, no resolver
VNoResolver == Var(<<118, 56>>, <<109>>, "dynamic", <<87>>, <<>>)

\* m, dynamic, resolver "sql://d", value "delete"
VSqlWrite == Var(<<118, 57>>, <<109>>, "dynamic", <<100, 101, 108, 101, 116, 101>>, <<115, 113, 108, 58, 47, 47, 100>>)

\* m, dynamic, resolver "neo4j://d", value "W"
VNeo4j == Var(<<118, 65>>, <<109>>, "dynamic", <<87>>, <<110, 101, 111, 52, 106, 58, 47, 47, 100>>)

\* m, dynamic, resolver "decrypt failed://x"
VDecryptScheme == Var(<<118, 66>>, <<109>>, "dynamic", <<87>>, <<100, 101, 99, 114, 121, 112, 116, 32, 102, 97, 105, 108, 101, 100, 58, 47, 47, 120>>)

VarPool ==
    {VStatic, VStaticM, VBadScheme, VSqlTwoColumns, VSqlOneColumn, VChat, VChatMissing,
     VNoResolver, VSqlWrite, VNeo4j, VDecryptScheme}

FlowNode(id, label, node_type, content) ==
    [id |-> id, label |-> label, node_type |-> node_type, content |-> content]

\* a: "H {{n}}"
NodeA == FlowNode(<<97>>, <<83>>, "system_prompt", <<72, 32, 123, 123, 110, 125, 125>>)

\* b: "{{m}}{{n}}"
NodeB == FlowNode(<<98>>, <<85>>, "user_input", <<123, 123, 109, 125, 125, 123, 123, 110, 125, 125>>)

Edge(source, target) == [source |-> source, target |-> target]

Project(nodes, edges, variables) ==
    [id |-> <<112>>, nodes |-> nodes, edges |-> edges, variables |-> variables]

Projects ==
    { Project(<<NodeA>>, <<>>, <<VStatic>>),
      Project(<<NodeA, NodeB>>, <<Edge(<<98>>, <<97>>)>>, <<VBadScheme, VStaticM>>),
      Project(<<NodeA>>, <<>>, <<VSqlTwoColumns>>),
      Project(<<NodeB, NodeA>>, <<Edge(<<97>>, <<98>>), Edge(<<98>>, <<97>>)>>,
              <<VChat, VNoResolver>>) }

\* {"n": "A"}
RowName == JObj((<<110>> :> JStr(<<65>>)))

\* "x": not an object
RowText == JStr(<<120>>)

\* {"variables": {"n": "B", "_k": "z"}}
RowNested == JObj((<<118, 97, 114, 105, 97, 98, 108, 101, 115>> :> JObj((<<110>> :> JStr(<<66>>) @@ <<95, 107>> :> JStr(<<122>>)))))

\* {}
RowEmpty == JObj(<<>>)

\* {"variables": 5}
RowBadVariables == JObj((<<118, 97, 114, 105, 97, 98, 108, 101, 115>> :> JNum(5)))

\* {"_n": "x", "m": 7}
RowUnderscore == JObj((<<95, 110>> :> JStr(<<120>>) @@ <<109>> :> JNum(7)))

Dataset(rows) == [id |-> <<100, 115>>, rows |-> rows]

\* the dataset files replay_dataset can read; it parses the rows as
\* Vec<serde_json::Value>, so a row can be any JSON value
Datasets ==
    { Dataset(<<RowName, RowText>>),
      Dataset(<<RowNested, RowEmpty>>),
      Dataset(<<RowBadVariables, RowUnderscore>>) }

(***************************************************************************)
(* State                                                                   *)
(***************************************************************************)

VARIABLES
    project,    \* data_dir/projects: the stored project
    dataset,    \* data_dir/datasets: the stored dataset
    clock,      \* now_ms()
    runs,       \* data_dir/runs: run id |-> RunRecord
    writes,     \* history: row index |-> number of run files written for it
    req,        \* the replay requests
    last,       \* history: what the latest row iteration resolved and rendered
    topo,       \* one call of topo_sort_nodes
    pv,         \* one preview / variable test request
    sql,        \* one request to the SQL endpoints
    db,         \* history: the connections opened to databases, in order
    listing,    \* one request for the runs of a dataset
    lib,        \* data_dir/variable-library of one project: item id |-> item
    chat,       \* data_dir/sessions: session id |-> session
    sreq,       \* the requests to the variable library and the sessions
    wlog        \* history: the writes of item and session files, in order

vars == <<project, dataset, clock, runs, writes, req, last, topo, pv,
          sql, db, listing, lib, chat, sreq, wlog>>

NoResponse == [status |-> 0, error |-> "", body |-> <<>>]

NoTrace == render_with_trace(<<>>, <<>>, "labeled", <<>>, <<>>)

\* ok: the row's overrides could be read
NoLast ==
    [valid |-> FALSE, ok |-> FALSE, rowIndex |-> 0, runId |-> <<>>, overrides |-> <<>>,
     outs |-> <<>>, resolved_map |-> <<>>, variables |-> <<>>, trace |-> NoTrace]

\* limit, offset: the request body, -1 standing for None
IdleRequest ==
    [pc |-> "idle", limit |-> -1, offset |-> -1, start |-> 0, end |-> 0, next |-> 0,
     summaries |-> <<>>,
     response |-> NoResponse, write_failed |-> FALSE]

TopoOff == [pc |-> "off", nodes |-> <<>>, edges |-> <<>>, result |-> <<>>]

PvOff ==
    [pc |-> "off", op |-> "", variables |-> <<>>, nodes |-> <<>>, output_style |-> "plain",
     outs |-> <<>>, vars |-> <<>>, response |-> NoResponse]

ReplayOff ==
    /\ project = Project(<<>>, <<>>, <<>>)
    /\ dataset = Dataset(<<>>)
    /\ clock = ClockBase
    /\ runs = <<>>
    /\ writes = <<>>
    /\ req = [r \in Requests |-> IdleRequest]
    /\ last = NoLast

\* Option<String>
None == [some |-> FALSE, v |-> <<>>]

Some(v) == [some |-> TRUE, v |-> v]

\* op: the route; id: the datasource of the path; url, data_source_id, query,
\* row_limit: the request body, -1 standing for no row limit
SqlOff ==
    [pc |-> "off", op |-> "", id |-> <<>>, url |-> None, data_source_id |-> None,
     query |-> <<>>, row_limit |-> -1, response |-> NoResponse]

\* row_index, limit: the query string, -1 standing for None
ListingOff ==
    [pc |-> "off", dataset_id |-> <<>>, row_index |-> -1, limit |-> -1,
     response |-> NoResponse]

\* op: the handler; id: the item or session of the path; body: the request
\* body; read: the document the handler has read; doc: the document it is
\* about to write
IdleStoreRequest ==
    [pc |-> "idle", op |-> "", id |-> <<>>, body |-> <<>>, read |-> <<>>, doc |-> <<>>,
     response |-> NoResponse]

ExtrasOff ==
    /\ sql = SqlOff
    /\ db = <<>>
    /\ listing = ListingOff
    /\ lib = <<>>
    /\ chat = <<>>
    /\ sreq = [r \in Requests |-> IdleStoreRequest]
    /\ wlog = <<>>

(***************************************************************************)
(* Replay requests                                                         *)
(***************************************************************************)

Init ==
    /\ ExtrasOff
    /\ project \in Projects
    /\ dataset \in Datasets
    /\ clock = ClockBase
    /\ runs = <<>>
    /\ writes = [i \in 0..(Len(dataset.rows) - 1) |-> 0]
    /\ req = [r \in Requests |-> IdleRequest]
    /\ last = NoLast
    /\ topo = TopoOff
    /\ pv = PvOff

Tick ==
    /\ clock < ClockBase + MaxTicks
    /\ clock' = clock + 1
    /\ UNCHANGED <<project, dataset, runs, writes, req, last, topo, pv, sql, db, listing, lib, chat, sreq, wlog>>

Respond(r, status, error) ==
    req' = [req EXCEPT ![r].pc = "done",
                       ![r].response = [status |-> status, error |-> error, body |-> <<>>]]

\* a slip that would leave the limit without its cap
ReplayLimitUncapped(limit0) == IF limit0 = -1 THEN 20 ELSE limit0

\* req.limit.unwrap_or(20).min(200); -1 stands for None
ReplayLimit(limit0) == Min(IF limit0 = -1 THEN 20 ELSE limit0, 200)

\* req.offset.unwrap_or(0); -1 stands for None
ReplayOffset(offset0) == IF offset0 = -1 THEN 0 ELSE offset0

WindowStart(offset, len) == Min(offset, len)

WindowEnd(start, limit, len) == Min(start + limit, len)

\* replay_dataset up to the loop over the rows.  The requests are
\* interchangeable: r1 names the one the server takes up first.
ReplayStart(r, project_id, dataset_id, limit0, offset0) ==
    /\ req[r].pc = "idle"
    /\ r = "r1" \/ req["r1"].pc # "idle"
    /\ IF Trim(project_id) = <<>> THEN Respond(r, 400, "validation_failed")
       ELSE IF dataset_id # dataset.id THEN Respond(r, 404, "dataset_not_found")
       ELSE IF project_id # project.id THEN Respond(r, 404, "project_not_found")
       ELSE \E start \in {WindowStart(ReplayOffset(offset0), Len(dataset.rows))} :
            \E end \in {WindowEnd(start, ReplayLimit(limit0), Len(dataset.rows))} :
                req' = [req EXCEPT ![r].pc = "rows", ![r].limit = limit0,
                                   ![r].offset = offset0, ![r].start = start,
                                   ![r].end = end, ![r].next = start]
    /\ UNCHANGED <<project, dataset, clock, runs, writes, last, topo, pv, sql, db, listing, lib, chat, sreq, wlog>>

\* tokio::fs::write of the run file, when it succeeds
WriteRun(record) ==
    /\ runs' = MapPut(runs, record.runId, record)
    /\ writes' = [writes EXCEPT ![record.rowIndex] = @ + 1]

\* one iteration of the loop over the rows: t2 is the second reading of the
\* clock, outs the resolutions, wok whether the file write succeeds
ReplayRow(r, t2, wok) ==
    /\ req[r].pc = "rows"
    /\ req[r].next < req[r].end
    /\ t2 \in clock..Min(clock + 1, ClockBase + MaxTicks)
    /\ clock' = t2
    /\ \E row_index \in {req[r].next} :
       \E run_id \in {RunId(clock, row_index)}, created_at \in {ToDecimal(t2)},
          engine_nodes \in {EngineNodes(topo_sort_nodes(project.nodes, project.edges))},
          overrides \in {row_to_variable_overrides(dataset.rows[row_index + 1])} :
           IF ~overrides.ok
           THEN \E record \in {FailedRecord(project, dataset, engine_nodes, row_index,
                                           run_id, created_at)} :
                    /\ IF wok THEN WriteRun(record) ELSE UNCHANGED <<runs, writes>>
                    /\ req' = [req EXCEPT
                                 ![r].summaries = Append(@, Summary(record)),
                                 ![r].next = row_index + 1,
                                 ![r].write_failed = @ \/ ~wok]
                    /\ last' = [NoLast EXCEPT !.valid = TRUE, !.rowIndex = row_index,
                                              !.runId = run_id, !.trace = record.trace]
           ELSE \E outs \in ResolveAll(project.variables) :
                \E resolved_map \in {ResolvedMap(project.variables, outs, Len(outs))} :
                \E variables \in {MergeOverrides(resolved_map, overrides.map)} :
                \E record \in {SucceededRecord(project, dataset, engine_nodes, row_index,
                                              run_id, created_at, variables, outs)} :
                    /\ last' = [valid |-> TRUE, ok |-> TRUE, rowIndex |-> row_index,
                                 runId |-> run_id, overrides |-> overrides.map,
                                 outs |-> outs, resolved_map |-> resolved_map,
                                 variables |-> variables, trace |-> record.trace]
                    /\ IF wok
                       THEN /\ WriteRun(record)
                            /\ req' = [req EXCEPT
                                         ![r].summaries = Append(@, Summary(record)),
                                         ![r].next = row_index + 1]
                       ELSE /\ UNCHANGED <<runs, writes>>
                            /\ req' = [req EXCEPT
                                         ![r].pc = "done",
                                         ![r].write_failed = TRUE,
                                         ![r].response =
                                             [status |-> 500, error |-> "write_failed",
                                              body |-> <<>>]]
    /\ UNCHANGED <<project, dataset, topo, pv, sql, db, listing, lib, chat, sreq, wlog>>

\* the return after the loop
ReplayReturn(r) ==
    /\ req[r].pc = "rows"
    /\ req[r].next = req[r].end
    /\ req' = [req EXCEPT ![r].pc = "done",
                          ![r].response = [status |-> 200, error |-> "",
                                           body |-> req[r].summaries]]
    /\ UNCHANGED <<project, dataset, clock, runs, writes, last, topo, pv, sql, db, listing, lib, chat, sreq, wlog>>

Next ==
    \/ Tick
    \/ \E r \in Requests, project_id \in {<<112>>, <<32>>, <<113>>},
          dataset_id \in {<<100, 115>>, <<113>>}, limit0 \in {-1, 1}, offset0 \in {-1, 1} :
          ReplayStart(r, project_id, dataset_id, limit0, offset0)
    \/ \E r \in Requests, t2 \in ClockBase..(ClockBase + MaxTicks), wok \in BOOLEAN :
          ReplayRow(r, t2, wok)
    \/ \E r \in Requests : ReplayReturn(r)

Spec == Init /\ [][Next]_vars

(***************************************************************************)
(* The orderer on its own: any node list and edge list within the bounds   *)
(***************************************************************************)

\* ids "a", "ab", "b"; two different nodes share the id "a"
TopoNodePool ==
    { FlowNode(<<97>>, <<>>, "text", <<>>), FlowNode(<<97>>, <<>>, "text", <<120>>),
      FlowNode(<<97, 98>>, <<>>, "text", <<>>), FlowNode(<<98>>, <<>>, "text", <<>>) }

\* edges that can close a cycle of one, two or three nodes, and edges that
\* name "z", the id of no node
TopoEdgePool ==
    { Edge(<<97>>, <<97, 98>>), Edge(<<97, 98>>, <<97>>), Edge(<<97, 98>>, <<98>>),
      Edge(<<98>>, <<97>>), Edge(<<97>>, <<97>>), Edge(<<97>>, <<122>>),
      Edge(<<122>>, <<98>>) }

InitTopo ==
    /\ ExtrasOff
    /\ ReplayOff
    /\ pv = PvOff
    /\ \E ns \in SeqsUpTo(TopoNodePool, MaxTopoNodes),
          es \in SeqsUpTo(TopoEdgePool, MaxTopoEdges) :
          topo = [pc |-> "ready", nodes |-> ns, edges |-> es, result |-> <<>>]

TopoSort ==
    /\ topo.pc = "ready"
    /\ topo' = [topo EXCEPT !.pc = "done",
                            !.result = topo_sort_nodes(topo.nodes, topo.edges)]
    /\ UNCHANGED <<project, dataset, clock, runs, writes, req, last, pv, sql, db, listing, lib, chat, sreq, wlog>>

NextTopo == TopoSort

SpecTopo == InitTopo /\ [][NextTopo]_vars

(***************************************************************************)
(* Preview execution and variable test (server-rs/src/lib.rs,              *)
(* server-rs/src/variable_library.rs)                                      *)
(***************************************************************************)

kind_from_string(kind) ==
    IF kind \in {"system", "user", "assistant", "tool", "memory", "retrieval"}
    THEN kind ELSE "text"

ProjectNode(id, label, kind, content) ==
    [id |-> id, label |-> label, kind |-> kind, content |-> content]

\* a: "H {{n}}" and b: "{{m}}{{n}}"
PreviewNodeLists ==
    { << ProjectNode(<<97>>, <<83>>, "system", <<72, 32, 123, 123, 110, 125, 125>>) >>,
      << ProjectNode(<<98>>, <<85>>, "user", <<123, 123, 109, 125, 125, 123, 123, 110, 125, 125>>),
         ProjectNode(<<97>>, <<83>>, "note", <<72, 32, 123, 123, 110, 125, 125>>) >> }

\* a variable without a name
VBlankName == Var(<<>>, <<32>>, "static", <<87>>, <<>>)

PreviewVarPool == VarPool \cup {VBlankName}

InitResolve ==
    /\ ExtrasOff
    /\ ReplayOff
    /\ topo = TopoOff
    /\ pv \in {[PvOff EXCEPT !.pc = "ready", !.variables = vs, !.nodes = ns,
                             !.output_style = st] :
                  vs \in SeqsUpTo(PreviewVarPool, MaxPreviewVars),
                  ns \in PreviewNodeLists, st \in {"plain", "labeled"}}

\* every sequence of results the loop of execute_preview can get
RECURSIVE PreviewResolveAll(_)
PreviewResolveAll(vs) ==
    IF vs = <<>> THEN {<<>>}
    ELSE {<<o>> \o rest : o \in resolve_variable_value(vs[1]),
                          rest \in PreviewResolveAll(Tail(vs))}

Placeholder(name) == <<91>> \o name \o <<93>>

\* vars after the loop of execute_preview
RECURSIVE PreviewVars(_, _, _)
PreviewVars(vs, outs, k) ==
    IF k = 0 THEN <<>>
    ELSE MapPut(PreviewVars(vs, outs, k - 1), vs[k].name,
                IF outs[k].ok THEN outs[k].value ELSE Placeholder(vs[k].name))

\* messages after the loop of execute_preview: one per failed resolution
RECURSIVE PreviewMessages(_, _)
PreviewMessages(vs, outs) ==
    IF vs = <<>> THEN <<>>
    ELSE (IF outs[1].ok THEN <<>>
          ELSE << [severity |-> "warn", code |-> "variable_resolve_failed",
                   message |-> <<32>> \o vs[1].name \o <<32>> \o outs[1].err] >>)
         \o PreviewMessages(Tail(vs), Tail(outs))

ExecutePreview ==
    /\ pv.pc = "ready"
    /\ \E outs \in PreviewResolveAll(pv.variables) :
       \E variables \in {PreviewVars(pv.variables, outs, Len(outs))},
          nodes \in {[k \in 1..Len(pv.nodes) |->
                        [pv.nodes[k] EXCEPT !.kind = kind_from_string(@)]]},
          now \in {ToDecimal(clock)} :
       \E trace0 \in {render_with_trace(nodes, variables, pv.output_style,
                                       <<114, 117, 110, 95>> \o now, now)} :
       \E trace \in {[trace0 EXCEPT !.messages = @ \o PreviewMessages(pv.variables, outs)]} :
          pv' = [pv EXCEPT !.pc = "done", !.op = "preview",
                           !.outs = [k \in 1..Len(outs) |->
                                        [ok |-> outs[k].ok, errorCode |-> ""]],
                           !.vars = variables,
                           !.response = [status |-> 200, error |-> "", body |-> trace]]
    /\ UNCHANGED <<project, dataset, clock, runs, writes, req, last, topo, sql, db, listing, lib, chat, sreq, wlog>>

\* test_variable on the first variable of the request
TestVariable ==
    /\ pv.pc = "ready"
    /\ pv.variables # <<>>
    /\ LET v0 == pv.variables[1]
           v == IF Trim(v0.id) = <<>> THEN [v0 EXCEPT !.id = <<118, 95, 116, 101, 115, 116>>] ELSE v0
       IN  IF Trim(v.name) = <<>>
           THEN /\ pv' = [pv EXCEPT !.pc = "done", !.op = "test",
                                    !.response = [status |-> 400, error |-> "invalid_variable",
                                                  body |-> <<>>]]
                /\ db' = db
           ELSE /\ \E out \in resolve_variable_with_trace(v) :
                     pv' = [pv EXCEPT
                              !.pc = "done", !.op = "test",
                              !.outs = << [ok |-> out.result.ok,
                                           errorCode |-> out.trace_message.details.errorCode] >>,
                              !.response =
                                  [status |-> 200, error |-> "",
                                   body |-> [ok |-> out.result.ok,
                                             value |-> IF out.result.ok THEN out.result.value
                                                       ELSE Placeholder(v.name),
                                             trace |-> out.trace_message]]]
                /\ db' = db \o resolve_variable_connects(v)
    /\ UNCHANGED <<project, dataset, clock, runs, writes, req, last, topo,
                   sql, listing, lib, chat, sreq, wlog>>

NextResolve == ExecutePreview \/ TestVariable

SpecResolve == InitResolve /\ [][NextResolve]_vars

(***************************************************************************)
(* Properties                                                              *)
(***************************************************************************)

NodeIds(nodes) == {nodes[k].id : k \in 1..Len(nodes)}

\* the edges whose source and target are both ids of nodes, as pairs
KnownEdges(nodes, edges) ==
    {<<edges[k].source, edges[k].target>> :
        k \in {j \in 1..Len(edges) :
                  edges[j].source \in NodeIds(nodes) /\ edges[j].target \in NodeIds(nodes)}}

RECURSIVE TransitiveClosure(_)
TransitiveClosure(R) ==
    LET R2 == R \cup {<<p[1][1], p[2][2]>> : p \in {q \in R \X R : q[1][2] = q[2][1]}}
    IN  IF R2 = R THEN R ELSE TransitiveClosure(R2)

HasCycle(nodes, edges) ==
    \E x \in TransitiveClosure(KnownEdges(nodes, edges)) : x[1] = x[2]

Occurrences(seq, x) == Cardinality({k \in 1..Len(seq) : seq[k] = x})

\* C1: two replay requests over the same project, dataset and backends
\* return the same outputDigest for the same row index, whatever the clock
\* readings of each replay are.
C1_SameDigestPerRow ==
    \A r1 \in Requests, r2 \in Requests :
        \A k1 \in 1..Len(req[r1].summaries), k2 \in 1..Len(req[r2].summaries) :
            req[r1].summaries[k1].rowIndex = req[r2].summaries[k2].rowIndex
                => req[r1].summaries[k1].outputDigest = req[r2].summaries[k2].outputDigest

\* C2: for any node list and edge list whose edges between known ids form
\* no cycle, for every edge (a -> b) between known ids, node a comes before
\* node b in the output of topo_sort_nodes.
C2_EdgeOrderRespected ==
    (topo.pc = "done" /\ ~HasCycle(topo.nodes, topo.edges))
        => \A e \in KnownEdges(topo.nodes, topo.edges) :
              \A i \in 1..Len(topo.result), j \in 1..Len(topo.result) :
                  (topo.result[i].id = e[1] /\ topo.result[j].id = e[2]) => i < j

\* C3: when the edges between known ids contain a cycle (a self-loop
\* included), topo_sort_nodes returns every input node, none dropped, in
\* ascending order of id.
C3_CycleFallsBackToIdOrder ==
    (topo.pc = "done" /\ HasCycle(topo.nodes, topo.edges))
        => /\ Len(topo.result) = Len(topo.nodes)
           /\ \A k \in 1..Len(topo.nodes) :
                 Occurrences(topo.result, topo.nodes[k]) = Occurrences(topo.nodes, topo.nodes[k])
           /\ \A i \in 1..Len(topo.result), j \in 1..Len(topo.result) :
                 i < j => StrLeq(topo.result[i].id, topo.result[j].id)

\* a cyclic input that is not in id order already, two of its nodes sharing
\* an id, has been ordered
C3_Witness ==
    /\ topo.pc = "done"
    /\ HasCycle(topo.nodes, topo.edges)
    /\ topo.result # topo.nodes
    /\ Len(topo.nodes) = 3
    /\ Cardinality(NodeIds(topo.nodes)) = 2

\* a later variable of the same name resolved, or the row overrode the name
Superseded(k) ==
    \/ last.outs[k].trace_message.details.variableName \in DOMAIN last.overrides
    \/ \E l \in (k + 1)..Len(last.outs) :
          /\ last.outs[l].trace_message.details.variableName
                = last.outs[k].trace_message.details.variableName
          /\ last.outs[l].result.ok

\* C4: whenever the resolution of a variable fails in a replayed row, the
\* variable map given to the renderer maps the variable's name to the
\* placeholder "[name]" (unless the row or a later variable redefines the
\* name), and the render returns a trace with one segment per node.
C4_FailedResolutionGetsPlaceholder ==
    (last.valid /\ last.ok)
        => /\ Len(last.trace.segments) = Len(project.nodes)
           /\ \A k \in 1..Len(last.outs) :
                 (~last.outs[k].result.ok /\ ~Superseded(k))
                    => LET name == last.outs[k].trace_message.details.variableName
                       IN  /\ name \in DOMAIN last.variables
                           /\ last.variables[name] = Placeholder(name)

\* C5: resolving a dynamic variable whose resolver scheme is not one of chat,
\* sql, sqlite, neo4j, milvus fails and is reported with errorCode
\* unsupported_scheme, in preview execution and in the variable test.
C5_UnknownSchemeIsUnsupported ==
    pv.pc = "done"
        => \A k \in 1..Len(pv.outs) :
              LET v == pv.variables[k]
              IN  (/\ v.type = "dynamic"
                   /\ Trim(v.resolver) # <<>>
                   /\ SchemeOf(Trim(v.resolver)) \notin RegistrySchemes)
                     => (~pv.outs[k].ok /\ pv.outs[k].errorCode = "unsupported_scheme")

\* the names a trace reports missing, whatever the segment, blank ones left out
MissingNames(trace) ==
    {name \in UNION {{trace.segments[k].missingVariables[j] :
                         j \in 1..Len(trace.segments[k].missingVariables)} :
                     k \in 1..Len(trace.segments)} :
        \E i \in 1..Len(name) : ~IsWs(name[i])}

\* C6: every persisted RunRecord, whatever its status, has outputDigest =
\* digest of trace.text and missingVariablesCount = the number of distinct
\* non-blank names in the union of missingVariables over the segments.
C6_RecordDerivableFromTrace ==
    \A id \in DOMAIN runs :
        /\ runs[id].outputDigest = digest_text(runs[id].trace.text)
        /\ runs[id].missingVariablesCount = Cardinality(MissingNames(runs[id].trace))

\* C7: for a dataset row that is not a JSON object, replay persists a run
\* record with status failed, an empty trace text and the digest of the
\* empty string.
C7_NonObjectRowRecord ==
    \A id \in DOMAIN runs :
        dataset.rows[runs[id].rowIndex + 1].t # "obj"
            => /\ runs[id].status = "failed"
               /\ runs[id].trace.text = <<>>
               /\ runs[id].outputDigest = digest_text(<<>>)

\* C8: every replayed row is stored in its own run file, so the runs dir
\* holds as many records of a row as run records were written for it.
C8_OneFilePerReplayedRow ==
    \A i \in DOMAIN writes :
        Cardinality({id \in DOMAIN runs : runs[id].rowIndex = i}) = writes[i]

\* C9: if writing a run record fails for any row of the window, whatever the
\* status of that row's run, the replay request ends with an error response
\* and not with run summaries.
C9_WriteFailureFailsRequest ==
    \A r \in Requests :
        (req[r].pc = "done" /\ req[r].write_failed) => req[r].response.status # 200

\* C10: the variable map of a replayed row is the resolved map with every
\* row override applied on top, and the segments are rendered with it: on a
\* name that is both resolved and overridden the override's value is used.
C10_RowOverridesWin ==
    (last.valid /\ last.ok)
        => LET expected == [k \in DOMAIN last.resolved_map \cup DOMAIN last.overrides |->
                               IF k \in DOMAIN last.overrides THEN last.overrides[k]
                               ELSE last.resolved_map[k]]
               sorted == EngineNodes(topo_sort_nodes(project.nodes, project.edges))
           IN  /\ last.variables = expected
               /\ \A k \in DOMAIN last.overrides : last.variables[k] = last.overrides[k]
               /\ Len(last.trace.segments) = Len(sorted)
               /\ \A k \in 1..Len(sorted) :
                     last.trace.segments[k].rendered
                        = RenderSegment(sorted[k], expected, "labeled").rendered

\* the row {"n": "A"} replayed against the project whose variable n resolves
\* to "W": the text is "--- S ---\nH A"
C10_Witness ==
    /\ last.valid /\ last.ok
    /\ <<110>> \in DOMAIN last.overrides /\ <<110>> \in DOMAIN last.resolved_map
    /\ last.overrides[<<110>>] = <<65>>
    /\ last.resolved_map[<<110>>] = <<87>>
    /\ last.trace.text = <<45, 45, 45, 32, 83, 32, 45, 45, 45, 10, 72, 32, 65>>

\* the overrides of an object row as C11 words them: every key of a nested
\* `variables` object, otherwise the top-level keys that do not start with '_'
OverridesAsStated(row) ==
    IF <<118, 97, 114, 105, 97, 98, 108, 101, 115>> \in DOMAIN row.m
       /\ row.m[<<118, 97, 114, 105, 97, 98, 108, 101, 115>>].t = "obj"
    THEN LET nested == row.m[<<118, 97, 114, 105, 97, 98, 108, 101, 115>>].m
         IN  [k \in DOMAIN nested |-> json_value_to_string(nested[k])]
    ELSE [k \in {x \in DOMAIN row.m : ~(x # <<>> /\ x[1] = 95)} |->
             json_value_to_string(row.m[k])]

\* C11: the overrides read from a replayed object row are exactly the keys of
\* its nested `variables` object when it has one, and in every other case
\* exactly its top-level keys that do not start with '_'.
C11_OverridesOfRow ==
    (last.valid /\ dataset.rows[last.rowIndex + 1].t = "obj")
        => /\ last.ok
           /\ last.overrides = OverridesAsStated(dataset.rows[last.rowIndex + 1])

\* C12: for every replayed object row the trace messages of the run are the
\* resolver messages of the project variables, exactly one per variable and
\* in declaration order, whether the resolution succeeded or failed.
C12_OneResolverMessagePerVariable ==
    (last.valid /\ dataset.rows[last.rowIndex + 1].t = "obj")
        => /\ Len(last.trace.messages) = Len(project.variables)
           /\ \A k \in 1..Len(project.variables) :
                 /\ last.trace.messages[k].code
                       \in {"variable_static", "variable_resolved", "variable_resolve_failed"}
                 /\ last.trace.messages[k].details.variableId = project.variables[k].id
                 /\ last.trace.messages[k].details.variableName = project.variables[k].name

(***************************************************************************)
(* One replay request with any window, over short datasets and over a      *)
(* dataset longer than the largest window                                  *)
(***************************************************************************)

\* 201 rows {}
LongDataset == Dataset([i \in 1..201 |-> RowEmpty])

InitWindow ==
    /\ ExtrasOff
    /\ \/ project \in Projects /\ dataset \in Datasets
       \/ project = Project(<<NodeA>>, <<>>, <<VStatic>>) /\ dataset = LongDataset
    /\ clock = ClockBase
    /\ runs = <<>>
    /\ writes = [i \in 0..(Len(dataset.rows) - 1) |-> 0]
    /\ req = [r \in Requests |-> IdleRequest]
    /\ last = NoLast
    /\ topo = TopoOff
    /\ pv = PvOff

\* the clock does not advance while the request runs
NextWindow ==
    \/ \E project_id \in {<<112>>, <<113>>}, limit0 \in {-1, 0, 1, 201},
          offset0 \in {-1, 1, 3} :
          ReplayStart("r1", project_id, <<100, 115>>, limit0, offset0)
    \/ \E wok \in BOOLEAN : ReplayRow("r1", clock, wok)
    \/ ReplayReturn("r1")

SpecWindow == InitWindow /\ [][NextWindow]_vars

\* C13: a replay request that returns run summaries returns exactly one per
\* row index i with offset <= i < min(offset + limit, rowCount), in
\* ascending order of rowIndex, malformed rows included; limit defaults to
\* 20 and is capped at 200, offset defaults to 0.
C13_WindowOfRows ==
    \A r \in Requests :
        (req[r].pc = "done" /\ req[r].response.status = 200)
            => LET limit == IF req[r].limit = -1 THEN 20
                            ELSE IF req[r].limit > 200 THEN 200 ELSE req[r].limit
                   offset == IF req[r].offset = -1 THEN 0 ELSE req[r].offset
                   indices == {i \in 0..(Len(dataset.rows) - 1) :
                                  offset <= i /\ i < offset + limit}
                   body == req[r].response.body
               IN  /\ Len(body) = Cardinality(indices)
                   /\ \A k \in 1..Len(body) : body[k].rowIndex \in indices
                   /\ \A k \in 1..(Len(body) - 1) : body[k].rowIndex < body[k + 1].rowIndex

\* a request for 201 rows of the long dataset has returned the 200 rows
\* 0..199
C13_Witness ==
    /\ req["r1"].pc = "done" /\ req["r1"].response.status = 200
    /\ req["r1"].limit = 201 /\ req["r1"].offset = -1
    /\ Len(dataset.rows) = 201
    /\ Len(req["r1"].response.body) = 200
    /\ req["r1"].response.body[200].rowIndex = 199

(***************************************************************************)
(* The renderer on its own: previews of templates built from pieces, with  *)
(* static variables only                                                   *)
(***************************************************************************)

\* number of pieces a template is built from
MaxPieces == 3

\* "{{n}}", "{{ m }}", "{{x}}", "{{", "}}", " ", "H", "é"
TemplatePieces ==
    { <<123, 123, 110, 125, 125>>, <<123, 123, 32, 109, 32, 125, 125>>,
      <<123, 123, 120, 125, 125>>, <<123, 123>>, <<125, 125>>, <<32>>, <<72>>,
      <<195, 169>> }

RECURSIVE TemplatesUpTo(_)
TemplatesUpTo(n) ==
    IF n = 0 THEN {<<>>}
    ELSE LET shorter == TemplatesUpTo(n - 1)
         IN  shorter \cup {t \o p : t \in shorter, p \in TemplatePieces}

\* the node lists of a render: the node a with the template alone, before
\* and after a node b without content
RenderNodeLists(t) ==
    { << ProjectNode(<<97>>, <<83>>, "system", t) >>,
      << ProjectNode(<<97>>, <<83>>, "system", t), ProjectNode(<<98>>, <<85>>, "note", <<>>) >>,
      << ProjectNode(<<98>>, <<85>>, "note", <<>>), ProjectNode(<<97>>, <<83>>, "system", t) >> }

\* no variable; n = "W"; n = "{{x}}" alone; n = "{{x}}" and x = "Z"
RenderVarLists ==
    { <<>>,
      << VStatic >>,
      << Var(<<118, 67>>, <<110>>, "static", <<123, 123, 120, 125, 125>>, <<>>) >>,
      << Var(<<118, 67>>, <<110>>, "static", <<123, 123, 120, 125, 125>>, <<>>),
         Var(<<118, 68>>, <<120>>, "static", <<90>>, <<>>) >> }

InitRender ==
    /\ ExtrasOff
    /\ ReplayOff
    /\ topo = TopoOff
    /\ \E t \in TemplatesUpTo(MaxPieces), vs \in RenderVarLists,
          st \in {"plain", "labeled"} :
       \E ns \in RenderNodeLists(t) :
          pv = [PvOff EXCEPT !.pc = "ready", !.variables = vs, !.nodes = ns,
                             !.output_style = st]

NextRender == ExecutePreview

SpecRender == InitRender /\ [][NextRender]_vars

(***************************************************************************)
(* Properties of the renderer                                              *)
(***************************************************************************)

\* the tokens of a template as section 4.1 words them: from the left, an
\* opening "{{" and the first "}}" after it; start and end are the 1-based
\* positions of the token's first and last byte, name is the trimmed text
\* between the braces
RECURSIVE TokensFrom(_, _)
TokensFrom(t, from) ==
    LET opens == {i \in from..(Len(t) - 1) : t[i] = 123 /\ t[i + 1] = 123}
    IN  IF opens = {} THEN <<>>
        ELSE LET o == CHOOSE i \in opens : \A j \in opens : i <= j
                 closes == {i \in (o + 2)..(Len(t) - 1) : t[i] = 125 /\ t[i + 1] = 125}
             IN  IF closes = {} THEN <<>>
                 ELSE LET c == CHOOSE i \in closes : \A j \in closes : i <= j
                      IN  << [start |-> o, end |-> c + 1,
                              name |-> Trim(SubSeq(t, o + 2, c - 1))] >>
                          \o TokensFrom(t, c + 2)

Tokens(t) == TokensFrom(t, 1)

Elements(seq) == {seq[k] : k \in 1..Len(seq)}

\* C14: every token whose trimmed name is non-empty and is no key of the
\* variable map is copied unchanged into the segment's rendered output and
\* its name is in the segment's missingVariables; the segment carries one
\* warn message with code missing_variable when missingVariables is
\* non-empty and no message otherwise.
C14_MissingTokenKeptAndReported ==
    (pv.pc = "done" /\ pv.op = "preview")
        => \A k \in 1..Len(pv.response.body.segments) :
              LET seg == pv.response.body.segments[k]
                  toks == Tokens(seg.template)
              IN  /\ \A j \in 1..Len(toks) :
                        (toks[j].name # <<>> /\ toks[j].name \notin DOMAIN pv.vars)
                           => /\ Contains(seg.rendered,
                                          SubSeq(seg.template, toks[j].start, toks[j].end))
                              /\ toks[j].name \in Elements(seg.missingVariables)
                  /\ IF seg.missingVariables # <<>>
                     THEN /\ Len(seg.messages) = 1
                          /\ seg.messages[1].severity = "warn"
                          /\ seg.messages[1].code = "missing_variable"
                     ELSE seg.messages = <<>>

\* the template "H{{ m }}" rendered without variables next to a node without
\* content: one segment reports m, the other carries no message
C14_Witness ==
    /\ pv.pc = "done" /\ pv.op = "preview"
    /\ pv.vars = <<>>
    /\ Len(pv.response.body.segments) = 2
    /\ pv.response.body.segments[1].template = <<72, 123, 123, 32, 109, 32, 125, 125>>
    /\ pv.response.body.segments[1].missingVariables = << <<109>> >>
    /\ Len(pv.response.body.segments[1].messages) = 1
    /\ pv.response.body.segments[2].messages = <<>>

\* C15: each segment's missingVariables is strictly ascending and holds
\* exactly the distinct non-empty trimmed token names of the segment's
\* template that are no key of the variable map.
C15_MissingVariablesSortedAndExact ==
    (pv.pc = "done" /\ pv.op = "preview")
        => \A k \in 1..Len(pv.response.body.segments) :
              LET seg == pv.response.body.segments[k]
                  toks == Tokens(seg.template)
                  mv == seg.missingVariables
              IN  /\ \A i \in 1..(Len(mv) - 1) : StrLess(mv[i], mv[i + 1])
                  /\ Elements(mv) = {toks[j].name : j \in {j \in 1..Len(toks) :
                                        /\ toks[j].name # <<>>
                                        /\ toks[j].name \notin DOMAIN pv.vars}}

\* the template "{{x}}{{n}}{{x}}" rendered without variables: the names come
\* out of order and twice from the scan and are reported as n, x
C15_Witness ==
    /\ pv.pc = "done" /\ pv.op = "preview"
    /\ pv.vars = <<>>
    /\ pv.response.body.segments[1].template =
          <<123, 123, 120, 125, 125, 123, 123, 110, 125, 125, 123, 123, 120, 125, 125>>
    /\ pv.response.body.segments[1].missingVariables = << <<110>>, <<120>> >>

\* the interpolated body of a segment: its rendered string without the header
\* of the labeled style
SegmentBody(seg, output_style) ==
    IF output_style = "plain" THEN seg.rendered
    ELSE SubSeq(seg.rendered, Len(seg.label) + 10, Len(seg.rendered))

\* C16: a token whose name is a key of the variable map is replaced by the
\* stored value exactly, and the value is not scanned again: the body is the
\* interpolation of the text before the token, then the value as stored, then
\* the interpolation of the text after the token, and the missing names are
\* those of the text before and after the token only.
C16_ValueSubstitutedVerbatimOnce ==
    (pv.pc = "done" /\ pv.op = "preview")
        => \A k \in 1..Len(pv.response.body.segments) :
              LET seg == pv.response.body.segments[k]
                  toks == Tokens(seg.template)
              IN  \A j \in 1..Len(toks) :
                     toks[j].name \in DOMAIN pv.vars
                        => LET before == interpolate_template(
                                  SubSeq(seg.template, 1, toks[j].start - 1), pv.vars)
                               after == interpolate_template(
                                  SubSeq(seg.template, toks[j].end + 1, Len(seg.template)),
                                  pv.vars)
                           IN  /\ SegmentBody(seg, pv.output_style)
                                     = before[1] \o pv.vars[toks[j].name] \o after[1]
                               /\ Elements(seg.missingVariables)
                                     = Elements(before[2]) \cup Elements(after[2])

\* the template "{{n}}" with n = "{{x}}" and x = "Z": the output is the text
\* "{{x}}", x is not substituted and nothing is missing
C16_Witness ==
    /\ pv.pc = "done" /\ pv.op = "preview"
    /\ pv.output_style = "plain"
    /\ DOMAIN pv.vars = {<<110>>, <<120>>}
    /\ pv.vars[<<110>>] = <<123, 123, 120, 125, 125>>
    /\ pv.vars[<<120>>] = <<90>>
    /\ pv.response.body.segments[1].template = <<123, 123, 110, 125, 125>>
    /\ pv.response.body.segments[1].rendered = <<123, 123, 120, 125, 125>>
    /\ pv.response.body.segments[1].missingVariables = <<>>

\* C17: in labeled style a segment's rendered string is "--- ", the label,
\* " ---" and a line feed followed by the interpolated body; in plain style it
\* is the interpolated body alone.
C17_HeaderOnlyInLabeledStyle ==
    (pv.pc = "done" /\ pv.op = "preview")
        => \A k \in 1..Len(pv.response.body.segments) :
              LET seg == pv.response.body.segments[k]
                  body == interpolate_template(seg.template, pv.vars)[1]
              IN  IF pv.output_style = "labeled"
                  THEN seg.rendered
                          = <<45, 45, 45, 32>> \o seg.label \o <<32, 45, 45, 45, 10>> \o body
                  ELSE seg.rendered = body

\* labeled style and a node without content after a node with the template
\* "H": the second segment is the header "--- U ---" and a line feed alone
C17_Witness ==
    /\ pv.pc = "done" /\ pv.op = "preview"
    /\ pv.output_style = "labeled"
    /\ Len(pv.response.body.segments) = 2
    /\ pv.response.body.segments[1].rendered = <<45, 45, 45, 32, 83, 32, 45, 45, 45, 10, 72>>
    /\ pv.response.body.segments[2].template = <<>>
    /\ pv.response.body.segments[2].rendered = <<45, 45, 45, 32, 85, 32, 45, 45, 45, 10>>

\* C18: the trace has one segment per input node, in the order of the nodes,
\* and its text is the segments' rendered strings joined by one blank line
\* with the leading and trailing whitespace of the joined string removed.
C18_SegmentPerNodeAndJoinedText ==
    (pv.pc = "done" /\ pv.op = "preview")
        => LET trace == pv.response.body
           IN  /\ Len(trace.segments) = Len(pv.nodes)
               /\ \A k \in 1..Len(pv.nodes) :
                     /\ trace.segments[k].nodeId = pv.nodes[k].id
                     /\ trace.segments[k].template = pv.nodes[k].content
               /\ trace.text
                     = Trim(Join([k \in 1..Len(trace.segments) |-> trace.segments[k].rendered],
                                 <<10, 10>>))

\* plain style, the node b without content before the node a with the
\* template " H ": the joined string is two line feeds and " H ", the text
\* is "H"
C18_Witness ==
    /\ pv.pc = "done" /\ pv.op = "preview"
    /\ pv.output_style = "plain"
    /\ Len(pv.nodes) = 2
    /\ pv.nodes[1].id = <<98>> /\ pv.nodes[2].id = <<97>>
    /\ pv.response.body.segments[1].rendered = <<>>
    /\ pv.response.body.segments[2].rendered = <<32, 72, 32>>
    /\ pv.response.body.text = <<72>>

(***************************************************************************)
(* The variable test over values around the byte budget                    *)
(***************************************************************************)

\* the values end up to MaxSlack bytes before the budget or go beyond it
MaxSlack == 5

\* n times "a"
Fill(n) == [i \in 1..n |-> 97]

\* ends of a value: characters of 1, 2, 3 and 4 bytes (a, U+00E9, U+20AC,
\* U+1F600) and pairs of them
ClampTails ==
    { <<>>, <<97>>, <<195, 169>>, <<226, 130, 172>>, <<240, 159, 152, 128>>,
      <<195, 169, 97>>, <<226, 130, 172, 195, 169>>, <<240, 159, 152, 128, 97>>,
      <<240, 159, 152, 128, 226, 130, 172>> }

\* static values around the budget; the dynamic variables "select l" (the
\* long text of the database) and "select a" against sqlite://m
ClampVarPool ==
    { Var(<<118, 76>>, <<110>>, "static", Fill(n) \o tail, <<>>) :
         n \in (MAX_VALUE_BYTES - MaxSlack)..(MAX_VALUE_BYTES + 1), tail \in ClampTails }
    \cup { Var(<<118, 81>>, <<110>>, "dynamic", <<115, 101, 108, 101, 99, 116, 32, 108>>,
               <<115, 113, 108, 105, 116, 101, 58, 47, 47, 109>>),
           Var(<<118, 82>>, <<110>>, "dynamic", <<115, 101, 108, 101, 99, 116, 32, 97>>,
               <<115, 113, 108, 105, 116, 101, 58, 47, 47, 109>>) }

InitClamp ==
    /\ ExtrasOff
    /\ ReplayOff
    /\ topo = TopoOff
    /\ \E v \in ClampVarPool :
          pv = [PvOff EXCEPT !.pc = "ready", !.variables = <<v>>]

NextClamp == TestVariable

SpecClamp == InitClamp /\ [][NextClamp]_vars

\* the values a variable has before the clamp: the stored value of a static
\* variable, the successful results of the dispatch of a dynamic one
Originals(v) ==
    IF v.type # "dynamic" THEN {v.value}
    ELSE {r.value : r \in {x \in RegistryResolve(SchemeOf(Trim(v.resolver)),
                                                  Trim(v.resolver), v) : x.ok}}

\* a prefix of n bytes of s ends between two characters
IsCharBoundary(s, n) ==
    n = 0 \/ n = Len(s) \/ (n < Len(s) /\ (s[n + 1] < 128 \/ s[n + 1] >= 192))

\* C19: a value returned by resolve_variable_with_trace is at most 20,000
\* bytes long, is the longest prefix of the original value that ends on a
\* character boundary within that budget, and the truncated flag of the trace
\* is true exactly when the original value is longer than 20,000 bytes.
C19_ClampedToBudgetOnCharBoundary ==
    (pv.pc = "done" /\ pv.op = "test" /\ pv.response.status = 200 /\ pv.response.body.ok)
        => \E original \in Originals(pv.variables[1]) :
              LET value == pv.response.body.value
              IN  /\ Len(value) <= 20000
                  /\ Len(value) <= Len(original)
                  /\ value = SubSeq(original, 1, Len(value))
                  /\ IsCharBoundary(original, Len(value))
                  /\ \A n \in (Len(value) + 1)..Min(Len(original), 20000) :
                        ~IsCharBoundary(original, n)
                  /\ pv.response.body.trace.details.truncated = (Len(original) > 20000)

\* a static value of 19,999 times "a" and the 3-byte character U+20AC, whose
\* bytes lie on both sides of the budget: the value returned is the 19,999
\* bytes before the character, flagged as truncated
C19_Witness ==
    /\ pv.pc = "done" /\ pv.op = "test"
    /\ pv.variables[1].type = "static"
    /\ Len(pv.variables[1].value) = 20002
    /\ pv.variables[1].value[20000] = 226
    /\ pv.response.body.ok
    /\ Len(pv.response.body.value) = 19999
    /\ pv.response.body.trace.details.truncated

\* C20: edges whose source or target is the id of no node have no effect on
\* the order: when the edge list is a list E followed by edges that each name
\* an unknown id, the result is the order of the nodes under E alone (and the
\* insertion order when E is empty).
C20_UnknownEdgesHaveNoEffect ==
    topo.pc = "done"
        => \A k \in 0..Len(topo.edges) :
              (\A j \in (k + 1)..Len(topo.edges) :
                  \/ topo.edges[j].source \notin NodeIds(topo.nodes)
                  \/ topo.edges[j].target \notin NodeIds(topo.nodes))
                 => topo.result = topo_sort_nodes(topo.nodes, SubSeq(topo.edges, 1, k))

\* the 1-based position of an opening "{{" that no later "}}" closes, 0 when
\* there is none: the first "{{" after the last token of the template
UnterminatedStart(t) ==
    LET toks == Tokens(t)
        from == IF toks = <<>> THEN 1 ELSE toks[Len(toks)].end + 1
        opens == {i \in from..(Len(t) - 1) : t[i] = 123 /\ t[i + 1] = 123}
    IN  IF opens = {} THEN 0 ELSE CHOOSE i \in opens : \A j \in opens : i <= j

\* C25: a token whose name is empty or whitespace-only is copied to the
\* output unchanged, and so is the whole remainder of the template from an
\* opening "{{" that has no later "}}"; neither adds a name to
\* missingVariables, and a segment without missing variables has no message.
C25_NamelessTokenCopiedSilently ==
    (pv.pc = "done" /\ pv.op = "preview")
        => \A k \in 1..Len(pv.response.body.segments) :
              LET seg == pv.response.body.segments[k]
                  t == seg.template
                  toks == Tokens(t)
                  u == UnterminatedStart(t)
              IN  /\ \A j \in 1..Len(toks) :
                        toks[j].name = <<>>
                           => LET before == interpolate_template(
                                     SubSeq(t, 1, toks[j].start - 1), pv.vars)
                                  after == interpolate_template(
                                     SubSeq(t, toks[j].end + 1, Len(t)), pv.vars)
                              IN  /\ SegmentBody(seg, pv.output_style)
                                        = before[1] \o SubSeq(t, toks[j].start, toks[j].end)
                                                    \o after[1]
                                  /\ Elements(seg.missingVariables)
                                        = Elements(before[2]) \cup Elements(after[2])
                  /\ u > 0
                        => LET before == interpolate_template(SubSeq(t, 1, u - 1), pv.vars)
                           IN  /\ SegmentBody(seg, pv.output_style)
                                     = before[1] \o SubSeq(t, u, Len(t))
                               /\ seg.missingVariables = before[2]
                  /\ <<>> \notin Elements(seg.missingVariables)
                  /\ seg.missingVariables = <<>> => seg.messages = <<>>

\* the template "{{}}{{", a token without a name followed by an opening that
\* is never closed: rendered as it is, nothing missing, no message
C25_Witness ==
    /\ pv.pc = "done" /\ pv.op = "preview"
    /\ pv.output_style = "plain"
    /\ pv.response.body.segments[1].template = <<123, 123, 125, 125, 123, 123>>
    /\ pv.response.body.segments[1].rendered = <<123, 123, 125, 125, 123, 123>>
    /\ pv.response.body.segments[1].missingVariables = <<>>
    /\ pv.response.body.segments[1].messages = <<>>

\* C28: in plain style a template without any "{{" renders to a body that is
\* byte for byte the template, multi-byte characters included.
C28_LiteralTextUnchanged ==
    (pv.pc = "done" /\ pv.op = "preview" /\ pv.output_style = "plain")
        => \A k \in 1..Len(pv.response.body.segments) :
              LET seg == pv.response.body.segments[k]
              IN  ~Contains(seg.template, <<123, 123>>) => seg.rendered = seg.template

(***************************************************************************)
(* Further properties of the orderer                                       *)
(***************************************************************************)

IdsOf(nodes) == [k \in 1..Len(nodes) |-> nodes[k].id]

DistinctIds(nodes) ==
    \A i \in 1..Len(nodes), j \in 1..Len(nodes) : nodes[i].id = nodes[j].id => i = j

\* the sequences that list every id of S once
IdOrders(S) ==
    {p \in [1..Cardinality(S) -> S] : \A i, j \in 1..Cardinality(S) : p[i] = p[j] => i = j}

\* the orders of the ids in which the source of every known edge comes first
TopologicalOrders(nodes, edges) ==
    {p \in IdOrders(NodeIds(nodes)) :
        \A e \in KnownEdges(nodes, edges) :
           \A i \in 1..Len(p), j \in 1..Len(p) : (p[i] = e[1] /\ p[j] = e[2]) => i < j}

\* p is before q, or equal to it, in the lexicographic order of id sequences
LexLeq(p, q) ==
    \/ p = q
    \/ \E k \in 1..Min(Len(p), Len(q)) :
          /\ \A i \in 1..(k - 1) : p[i] = q[i]
          /\ StrLess(p[k], q[k])

\* C26: for nodes with pairwise distinct ids and a non-empty edge list whose
\* edges between known ids are acyclic, topo_sort_nodes returns the nodes in
\* the lexicographically smallest topological order by id.
C26_SmallestTopologicalOrder ==
    (/\ topo.pc = "done"
     /\ DistinctIds(topo.nodes)
     /\ topo.edges # <<>>
     /\ ~HasCycle(topo.nodes, topo.edges))
        => /\ Len(topo.result) = Len(topo.nodes)
           /\ \A k \in 1..Len(topo.result) :
                 \E l \in 1..Len(topo.nodes) : topo.result[k] = topo.nodes[l]
           /\ IdsOf(topo.result) \in TopologicalOrders(topo.nodes, topo.edges)
           /\ \A p \in TopologicalOrders(topo.nodes, topo.edges) :
                 LexLeq(IdsOf(topo.result), p)

\* the nodes b, ab, a under the edge a -> ab: after a both ab and b are
\* ready, and ab comes first
C26_Witness ==
    /\ topo.pc = "done"
    /\ IdsOf(topo.nodes) = << <<98>>, <<97, 98>>, <<97>> >>
    /\ topo.edges = << Edge(<<97>>, <<97, 98>>) >>
    /\ IdsOf(topo.result) = << <<97>>, <<97, 98>>, <<98>> >>

\* C27: the fallback to id order is taken only for cyclic inputs: every input
\* whose edges between known ids are acyclic, a node list with a repeated id
\* or an edge list with a repeated edge included, is returned with every
\* input node once and the source of every known edge before its target.
C27_AcyclicInputNeverFallsBack ==
    (topo.pc = "done" /\ ~HasCycle(topo.nodes, topo.edges))
        => /\ Len(topo.result) = Len(topo.nodes)
           /\ \A k \in 1..Len(topo.nodes) :
                 Occurrences(topo.result, topo.nodes[k]) = Occurrences(topo.nodes, topo.nodes[k])
           /\ \A e \in KnownEdges(topo.nodes, topo.edges) :
                 \A i \in 1..Len(topo.result), j \in 1..Len(topo.result) :
                     (topo.result[i].id = e[1] /\ topo.result[j].id = e[2]) => i < j

\* C29: the run of a replayed row has status failed exactly when the row is
\* not a JSON object; every row that is a JSON object yields status
\* succeeded, whatever its members are.
C29_FailedIffRowNotObject ==
    \A id \in DOMAIN runs :
        /\ runs[id].status \in {"failed", "succeeded"}
        /\ runs[id].status = "failed" <=> dataset.rows[runs[id].rowIndex + 1].t # "obj"

(***************************************************************************)
(* SQL endpoints (server-rs/src/lib.rs) and the variable test over SQL     *)
(* variables                                                               *)
(***************************************************************************)

load_datasource(id) ==
    IF id \in DOMAIN DataSourceFiles THEN Ok(DataSourceFiles[id]) ELSE Err(ErrNoSuchFile)

is_sql_driver(driver) == driver \in {<<115, 113, 108, 105, 116, 101>>, <<112, 111, 115, 116, 103, 114, 101, 115>>, <<109, 121, 115, 113, 108>>}

\* the result of list_tables_for_url once the connection is asked for
list_tables_for_url(url) ==
    IF url \in DOMAIN DatabaseTables THEN Ok(DatabaseTables[url]) ELSE Err(ErrUnableToOpen)

\* req.row_limit.unwrap_or(100).min(1000); -1 stands for None
SqlRowLimit(row_limit) == Min(IF row_limit = -1 THEN 100 ELSE row_limit, 1000)

\* the text of the first value of the first row; any column can come first
SqlFirstValue(rows) ==
    IF rows = <<>> \/ DOMAIN rows[1] = {} THEN {<<>>} ELSE FirstValues(rows[1])

SqlRespond(status, error, body) ==
    sql' = [sql EXCEPT !.pc = "done",
                       !.response = [status |-> status, error |-> error, body |-> body]]

\* a slip that would take every text for a read
SqlQueryUnguarded ==
    /\ sql.pc = "ready"
    /\ sql.op = "query"
    /\ \E query \in {Trim(sql.query)} :
          IF ~sql.url.some /\ ~sql.data_source_id.some
          THEN SqlRespond(400, "missing_url", <<>>) /\ db' = db
          ELSE \E url \in {IF sql.url.some THEN Ok(sql.url.v)
                           ELSE decrypt_datasource_url(sql.data_source_id.v)} :
                  IF ~url.ok
                  THEN SqlRespond(400, "datasource_failed", <<>>) /\ db' = db
                  ELSE /\ db' = Append(db, [url |-> url.value, query |-> query])
                       /\ SqlRespond(200, "", <<>>)
    /\ UNCHANGED <<project, dataset, clock, runs, writes, req, last, topo, pv,
                   listing, lib, chat, sreq, wlog>>

\* sql_query
SqlQuery ==
    /\ sql.pc = "ready"
    /\ sql.op = "query"
    /\ \E query \in {Trim(sql.query)} :
       \E lower \in {ToAsciiLowercase(query)} :
          IF ~(StartsWith(lower, <<115, 101, 108, 101, 99, 116>>) \/ StartsWith(lower, <<119, 105, 116, 104>>))
          THEN SqlRespond(400, "readonly_required", <<>>) /\ db' = db
          ELSE IF ~sql.url.some /\ ~sql.data_source_id.some
          THEN SqlRespond(400, "missing_url", <<>>) /\ db' = db
          ELSE \E url \in {IF sql.url.some THEN Ok(sql.url.v)
                           ELSE decrypt_datasource_url(sql.data_source_id.v)} :
                  IF ~url.ok
                  THEN SqlRespond(400, "datasource_failed", <<>>) /\ db' = db
                  ELSE /\ db' = Append(db, [url |-> url.value, query |-> query])
                       /\ \E r \in {query_any_rows(url.value, query)} :
                             IF ~r.ok THEN SqlRespond(400, "query_failed", <<>>)
                             ELSE \E rows \in {SubSeq(r.rows, 1,
                                                     Min(SqlRowLimit(sql.row_limit), Len(r.rows)))} :
                                  \E value \in SqlFirstValue(rows) :
                                     SqlRespond(200, "", [value |-> value, rows |-> rows])
    /\ UNCHANGED <<project, dataset, clock, runs, writes, req, last, topo, pv,
                   listing, lib, chat, sreq, wlog>>

\* list_datasource_tables
ListDatasourceTables ==
    /\ sql.pc = "ready"
    /\ sql.op = "tables"
    /\ \E ds \in {load_datasource(sql.id)} :
          IF ~ds.ok THEN SqlRespond(404, "not_found", <<>>) /\ db' = db
          ELSE IF ~is_sql_driver(ds.value.driver)
          THEN SqlRespond(400, "unsupported_driver", <<>>) /\ db' = db
          ELSE \E url \in {decrypt_datasource_url(sql.id)} :
                  IF ~url.ok THEN SqlRespond(400, "decrypt_failed", <<>>) /\ db' = db
                  ELSE /\ db' = Append(db, [url |-> url.value, query |-> <<116, 97, 98, 108, 101, 115>>])
                       /\ \E r \in {list_tables_for_url(url.value)} :
                             IF r.ok THEN SqlRespond(200, "", r.value)
                             ELSE SqlRespond(400, "list_tables_failed", <<>>)
    /\ UNCHANGED <<project, dataset, clock, runs, writes, req, last, topo, pv,
                   listing, lib, chat, sreq, wlog>>

\* texts of queries: reads, reads in other case and with blanks around, a
\* read of a table that does not exist, writes, the empty text
SqlTexts ==
    { <<115, 101, 108, 101, 99, 116, 32, 97>>, <<32, 115, 101, 108, 101, 99, 116, 32, 42, 32>>, <<83, 69, 76, 69, 67, 84, 32, 116>>, <<87, 105, 116, 104, 32, 97>>,
      <<100, 101, 108, 101, 116, 101>>, <<32, 68, 114, 111, 112, 32, 116>>, <<115, 101, 108, 101, 99>>, <<>> }

\* the urls a request can carry: none, the database, a file that is not there
SqlUrls == {None, Some(<<115, 113, 108, 105, 116, 101, 58, 47, 47, 109>>), Some(<<115, 113, 108, 105, 116, 101, 58, 47, 47, 113>>)}

\* the datasource ids a request can carry; "q" is stored nowhere
SqlDataSourceIds == {None, Some(<<100>>), Some(<<101>>), Some(<<113>>)}

\* SQL variables: every text against sqlite://m, sql://d, sql://e and the
\* datasource sql://q that is stored nowhere
SqlVarPool ==
    { Var(<<118, 83>>, <<110>>, "dynamic", text, resolver) :
         text \in SqlTexts,
         resolver \in {<<115, 113, 108, 105, 116, 101, 58, 47, 47, 109>>, <<115, 113, 108, 58, 47, 47, 100>>, <<115, 113, 108, 58, 47, 47, 101>>, <<115, 113, 108, 58, 47, 47, 113>>} }

InitSql ==
    /\ ReplayOff
    /\ topo = TopoOff
    /\ db = <<>>
    /\ listing = ListingOff
    /\ lib = <<>>
    /\ chat = <<>>
    /\ sreq = [r \in Requests |-> IdleStoreRequest]
    /\ wlog = <<>>
    /\ \/ /\ pv = PvOff
          /\ \E url \in SqlUrls, data_source_id \in SqlDataSourceIds,
                query \in SqlTexts, row_limit \in {-1, 0} :
                sql = [SqlOff EXCEPT !.pc = "ready", !.op = "query", !.url = url,
                                     !.data_source_id = data_source_id,
                                     !.query = query, !.row_limit = row_limit]
       \/ /\ pv = PvOff
          /\ \E id \in {<<100>>, <<101>>, <<110>>, <<113>>} :
                sql = [SqlOff EXCEPT !.pc = "ready", !.op = "tables", !.id = id]
       \/ /\ sql = SqlOff
          /\ \E v \in SqlVarPool :
                pv = [PvOff EXCEPT !.pc = "ready", !.variables = <<v>>]

NextSql == SqlQuery \/ ListDatasourceTables \/ TestVariable

SpecSql == InitSql /\ [][NextSql]_vars

\* the text, trimmed and in lower case, starts with "select" or "with"
StartsAsRead(text) ==
    LET lower == ToAsciiLowercase(Trim(text))
    IN  StartsWith(lower, <<115, 101, 108, 101, 99, 116>>) \/ StartsWith(lower, <<119, 105, 116, 104>>)

IsSqlVariable(v) ==
    /\ v.type = "dynamic"
    /\ \/ StartsWith(Trim(v.resolver), <<115, 113, 108, 58, 47, 47>>)
       \/ StartsWith(Trim(v.resolver), <<115, 113, 108, 105, 116, 101, 58, 47, 47>>)

C22_SchemeDisabledIsRefused ==
    /\ (/\ sql.pc = "done" /\ sql.op = "tables"
        /\ sql.id \in DOMAIN DataSourceFiles
        /\ ~DataSourceFiles[sql.id].allow_schema)
          => sql.response.status = 403 /\ db = <<>>
    /\ (/\ sql.pc = "done" /\ sql.op = "query"
        /\ ~sql.url.some /\ sql.data_source_id.some
        /\ sql.data_source_id.v \in DOMAIN DataSourceFiles
        /\ ~DataSourceFiles[sql.data_source_id.v].allow_schema
        /\ StartsAsRead(sql.query))
          => sql.response.status = 403 /\ db = <<>>

(***************************************************************************)
(* Listing the runs of a dataset (server-rs/src/runs.rs)                   *)
(***************************************************************************)

\* the number of run files in data_dir/runs
MaxRuns == 3

\* the run file a replay at time ms has written for a row of a dataset
StoredRun(ms, dataset_id, row_index) ==
    [FailedRecord(Project(<<>>, <<>>, <<>>), Dataset(<<>>), <<>>, row_index,
                  RunId(ms, row_index), ToDecimal(ms))
        EXCEPT !.datasetId = dataset_id]

\* run files of replays just before and after the clock gains a digit
RunPool ==
    { StoredRun(ms, dataset_id, row_index) :
         ms \in (ClockBase - 1)..(ClockBase + 1),
         dataset_id \in {<<100, 115>>, <<113>>}, row_index \in {0, 1} }

\* the runs directories: one file per run id
RunDirs ==
    { [id \in {rec.runId : rec \in S} |-> CHOOSE rec \in S : rec.runId = id] :
         S \in {T \in SUBSET RunPool :
                   /\ Cardinality(T) <= MaxRuns
                   /\ \A a \in T, b \in T : a.runId = b.runId => a = b} }

\* out.sort_by(|a, b| b.created_at.cmp(&a.created_at)): a stable sort of
\* the summaries, the greater createdAt string first
RECURSIVE InsertByCreatedAtDesc(_, _)
InsertByCreatedAtDesc(sorted, x) ==
    IF sorted = <<>> THEN <<x>>
    ELSE IF StrLess(sorted[1].createdAt, x.createdAt) THEN <<x>> \o sorted
    ELSE <<sorted[1]>> \o InsertByCreatedAtDesc(Tail(sorted), x)

RECURSIVE SortByCreatedAtDesc(_)
SortByCreatedAtDesc(out) ==
    IF out = <<>> THEN <<>>
    ELSE InsertByCreatedAtDesc(SortByCreatedAtDesc(SubSeq(out, 1, Len(out) - 1)), out[Len(out)])

\* the orders in which read_dir can yield the files of the ids in S
DirOrders(S) ==
    {p \in [1..Cardinality(S) -> S] : \A i, j \in 1..Cardinality(S) : p[i] = p[j] => i = j}

\* list_dataset_runs; row_index and limit are -1 for None
ListDatasetRuns(dataset_id, row_index, limit) ==
    /\ listing.pc = "ready"
    /\ \E matching \in {{id \in DOMAIN runs :
                           /\ runs[id].datasetId = dataset_id
                           /\ row_index # -1 => runs[id].rowIndex = row_index}} :
       \E order \in DirOrders(matching) :
       \E out \in {SortByCreatedAtDesc([k \in 1..Len(order) |-> Summary(runs[order[k]])])} :
          listing' = [listing EXCEPT
                         !.pc = "done", !.dataset_id = dataset_id,
                         !.row_index = row_index, !.limit = limit,
                         !.response = [status |-> 200, error |-> "",
                                       body |-> IF limit = -1 THEN out
                                                ELSE SubSeq(out, 1, Min(limit, Len(out)))]]
    /\ UNCHANGED <<project, dataset, clock, runs, writes, req, last, topo, pv,
                   sql, db, lib, chat, sreq, wlog>>

InitListing ==
    /\ project = Project(<<>>, <<>>, <<>>)
    /\ dataset = Dataset(<<>>)
    /\ clock = ClockBase + 1
    /\ runs \in RunDirs
    /\ writes = <<>>
    /\ req = [r \in Requests |-> IdleRequest]
    /\ last = NoLast
    /\ topo = TopoOff
    /\ pv = PvOff
    /\ sql = SqlOff
    /\ db = <<>>
    /\ listing = [ListingOff EXCEPT !.pc = "ready"]
    /\ lib = <<>>
    /\ chat = <<>>
    /\ sreq = [r \in Requests |-> IdleStoreRequest]
    /\ wlog = <<>>

NextListing ==
    \E dataset_id \in {<<100, 115>>, <<113>>}, row_index \in {-1, 0, 1}, limit \in {-1, 0, 1, 2} :
        ListDatasetRuns(dataset_id, row_index, limit)

SpecListing == InitListing /\ [][NextListing]_vars

\* the runs of the directory the request asks for
MatchingRuns ==
    {id \in DOMAIN runs :
        /\ runs[id].datasetId = listing.dataset_id
        /\ listing.row_index # -1 => runs[id].rowIndex = listing.row_index}

\* createdAt, a decimal text, as a number
CreatedAtNumber(rec) == DigitsValue(rec.createdAt)

\* C23: listing the runs of a dataset returns the persisted runs whose
\* datasetId matches (and whose rowIndex equals the filter when one is given),
\* ordered by createdAt from newest to oldest as numbers, cut to the first
\* `limit` entries when a limit is given.
C23_RunsNewestFirst ==
    listing.pc = "done"
        => LET body == listing.response.body
               listed == {body[k].runId : k \in 1..Len(body)}
           IN  /\ listed \subseteq MatchingRuns
               /\ \A k \in 1..Len(body) : body[k] = Summary(runs[body[k].runId])
               /\ \A i \in 1..Len(body), j \in 1..Len(body) :
                     i # j => body[i].runId # body[j].runId
               /\ Len(body) = IF listing.limit = -1 THEN Cardinality(MatchingRuns)
                              ELSE Min(listing.limit, Cardinality(MatchingRuns))
               /\ \A i \in 1..Len(body), j \in 1..Len(body) :
                     i < j => CreatedAtNumber(body[i]) >= CreatedAtNumber(body[j])
               /\ \A id \in MatchingRuns \ listed :
                     \A k \in 1..Len(body) :
                        CreatedAtNumber(body[k]) >= CreatedAtNumber(runs[id])

(***************************************************************************)
(* Variable library (server-rs/src/variable_library.rs) and session        *)
(* messages (server-rs/src/lib.rs): two requests at a time, each handler    *)
(* split where it waits for the file system.  A file is what a reader can   *)
(* get from it: its length, and the document its text parses to, if any    *)
(***************************************************************************)

\* the number of requests to the library and the sessions in a behaviour
MaxStoreRequests == 2

\* VariableLibraryData
LibraryData(name, type, value, description, source, resolver, tags) ==
    [name |-> name, type |-> type, value |-> value, description |-> description,
     source |-> source, resolver |-> resolver, tags |-> tags]

\* format!("var_{}", now_ms())
ItemId(ms) == <<118, 97, 114, 95>> \o ToDecimal(ms)

\* format!("v_{}", now_ms())
VersionId(ms) == <<118, 95>> \o ToDecimal(ms)

\* the requests are served within two milliseconds
StoreClockEnd == ClockBase + 1

\* the values n successive calls of now_ms() return: they never go back, and
\* the clock gains at most one millisecond meanwhile
ClockReadings(n) ==
    {t \in [1..n -> clock..Min(clock + 1, StoreClockEnd)] :
        \A i \in 1..(n - 1) : t[i] <= t[i + 1]}

\* item.versions.iter().find(|v| v.version_id == item.current_version_id):
\* the index of the first such version, 0 when there is none
CurrentVersionIndex(item) ==
    LET hits == {k \in 1..Len(item.versions) :
                    item.versions[k].versionId = item.currentVersionId}
    IN  IF hits = {} THEN 0 ELSE CHOOSE k \in hits : \A l \in hits : k <= l

\* `merged` of update_variable_library_item
MergedData(body, current) ==
    LibraryData(IF body.name.some THEN body.name.v ELSE current.name,
                IF body.type.some THEN body.type.v ELSE current.type,
                IF body.value.some THEN body.value.v ELSE current.value,
                IF body.description.some THEN body.description ELSE current.description,
                IF body.source.some THEN body.source ELSE current.source,
                IF body.resolver.some THEN body.resolver ELSE current.resolver,
                IF body.tags.some THEN body.tags.v ELSE current.tags)

\* serde_json::to_string_pretty: two spaces a level, ": " after a key, one
\* member a line.  The strings of the requests need no escape.
JsonString(s) == <<34>> \o s \o <<34>>

JsonOption(o) == IF o.some THEN JsonString(o.v) ELSE <<110, 117, 108, 108>>

Indent(n) == [i \in 1..n |-> 32]

RECURSIVE PrettyJoin(_)
PrettyJoin(lines) ==
    IF Len(lines) = 0 THEN <<>>
    ELSE IF Len(lines) = 1 THEN lines[1]
    ELSE lines[1] \o <<44, 10>> \o PrettyJoin(Tail(lines))

\* a member of an object whose brace is indented by n
PrettyMember(n, key, text) == Indent(n + 2) \o JsonString(key) \o <<58, 32>> \o text

PrettyObject(n, members) ==
    <<123, 10>> \o PrettyJoin(members) \o <<10>> \o Indent(n) \o <<125>>

PrettyArray(n, elements) ==
    IF Len(elements) = 0 THEN <<91, 93>>
    ELSE <<91, 10>>
         \o PrettyJoin([k \in 1..Len(elements) |-> Indent(n + 2) \o elements[k]])
         \o <<10>> \o Indent(n) \o <<93>>

PrettyData(n, data) ==
    PrettyObject(n, << PrettyMember(n, <<110, 97, 109, 101>>, JsonString(data.name)),
                       PrettyMember(n, <<116, 121, 112, 101>>, JsonString(data.type)),
                       PrettyMember(n, <<118, 97, 108, 117, 101>>, JsonString(data.value)),
                       PrettyMember(n, <<100, 101, 115, 99, 114, 105, 112, 116, 105, 111, 110>>, JsonOption(data.description)),
                       PrettyMember(n, <<115, 111, 117, 114, 99, 101>>, JsonOption(data.source)),
                       PrettyMember(n, <<114, 101, 115, 111, 108, 118, 101, 114>>, JsonOption(data.resolver)),
                       PrettyMember(n, <<116, 97, 103, 115>>,
                           PrettyArray(n + 2, [k \in 1..Len(data.tags) |->
                                                  JsonString(data.tags[k])])) >>)

PrettyVersion(n, v) ==
    PrettyObject(n, << PrettyMember(n, <<118, 101, 114, 115, 105, 111, 110, 73, 100>>, JsonString(v.versionId)),
                       PrettyMember(n, <<99, 114, 101, 97, 116, 101, 100, 65, 116>>, JsonString(v.createdAt)),
                       PrettyMember(n, <<100, 97, 116, 97>>, PrettyData(n + 2, v.data)) >>)

\* the text write_item writes
PrettyItem(item) ==
    PrettyObject(0, << PrettyMember(0, <<105, 100>>, JsonString(item.id)),
                       PrettyMember(0, <<112, 114, 111, 106, 101, 99, 116, 73, 100>>, JsonString(item.projectId)),
                       PrettyMember(0, <<99, 117, 114, 114, 101, 110, 116, 86, 101, 114, 115, 105, 111, 110, 73, 100>>,
                                    JsonString(item.currentVersionId)),
                       PrettyMember(0, <<99, 114, 101, 97, 116, 101, 100, 65, 116>>, JsonString(item.createdAt)),
                       PrettyMember(0, <<117, 112, 100, 97, 116, 101, 100, 65, 116>>, JsonString(item.updatedAt)),
                       PrettyMember(0, <<118, 101, 114, 115, 105, 111, 110, 115>>,
                           PrettyArray(2, [k \in 1..Len(item.versions) |->
                                              PrettyVersion(4, item.versions[k])])) >>)

PrettyMessage(n, m) ==
    PrettyObject(n, << PrettyMember(n, <<114, 111, 108, 101>>, JsonString(m.role)),
                       PrettyMember(n, <<99, 111, 110, 116, 101, 110, 116>>, JsonString(m.content)),
                       PrettyMember(n, <<99, 114, 101, 97, 116, 101, 100, 65, 116>>, JsonString(m.createdAt)) >>)

\* the text write_session writes
PrettySession(s) ==
    PrettyObject(0, << PrettyMember(0, <<105, 100>>, JsonString(s.id)),
                       PrettyMember(0, <<110, 97, 109, 101>>, JsonString(s.name)),
                       PrettyMember(0, <<109, 101, 115, 115, 97, 103, 101, 115>>,
                           PrettyArray(2, [k \in 1..Len(s.messages) |->
                                              PrettyMessage(4, s.messages[k])])),
                       PrettyMember(0, <<117, 112, 100, 97, 116, 101, 100, 65, 116>>, JsonString(s.updatedAt)) >>)

\* the file whose text is that of the document
FileOf(doc, text) == [len |-> Len(text), doc |-> Some(doc)]

\* File::create of std::fs::write: the file exists and is empty
FileCreate(store, id) == MapPut(store, id, [len |-> 0, doc |-> None])

\* write_all of std::fs::write: the text replaces the first bytes of the
\* file; what the file had beyond them stays, and then the file parses to
\* nothing (serde_json refuses characters after the document)
FileWriteAll(store, id, doc, text) ==
    MapPut(store, id, [len |-> IF store[id].len > Len(text) THEN store[id].len ELSE Len(text),
                       doc |-> IF store[id].len > Len(text) THEN None ELSE Some(doc)])

\* read_item and load_session: the document of the file; None when the file
\* is missing or does not parse
read_item(store, id) == IF id \in DOMAIN store THEN store[id].doc ELSE None

load_session_file(store, id) == IF id \in DOMAIN store THEN store[id].doc ELSE None

StoreRespond(r, status, error, body) ==
    sreq' = [sreq EXCEPT ![r].pc = "done",
                         ![r].response = [status |-> status, error |-> error, body |-> body]]

\* wlog gains the request answered: its slot, the file it named or wrote and
\* whether it wrote it
Logged(r, id, written) ==
    wlog' = Append(wlog, [r |-> r, id |-> id, written |-> written])

\* a request may start while the behaviour has requests left
MayStart(r) ==
    /\ sreq[r].pc = "idle"
    /\ r = "r1" \/ sreq["r1"].pc # "idle"
    /\ Len(wlog) + Cardinality({x \in Requests : sreq[x].pc \in {"loaded", "opened"}})
          < MaxStoreRequests

\* create_variable_library_item up to the File::create of its write; wok:
\* the file can be created
CreateVariableLibraryItem(r, body, wok) ==
    /\ MayStart(r)
    /\ \E t \in ClockReadings(4) :
       \E item \in {[id |-> ItemId(t[1]), projectId |-> <<112>>,
                     currentVersionId |-> VersionId(t[3]),
                     createdAt |-> ToDecimal(t[2]), updatedAt |-> ToDecimal(t[2]),
                     versions |-> << [versionId |-> VersionId(t[3]),
                                      createdAt |-> ToDecimal(t[4]),
                                      data |-> LibraryData(body.name, body.type, body.value,
                                                           body.description, body.source,
                                                           body.resolver,
                                                           IF body.tags.some THEN body.tags.v
                                                           ELSE <<>>)] >>]} :
          /\ clock' = t[4]
          /\ IF wok
             THEN /\ lib' = FileCreate(lib, item.id)
                  /\ wlog' = wlog
                  /\ sreq' = [sreq EXCEPT ![r] = [IdleStoreRequest EXCEPT
                                 !.pc = "opened", !.op = "create", !.id = item.id,
                                 !.body = body, !.doc = item]]
             ELSE /\ lib' = lib
                  /\ Logged(r, item.id, FALSE)
                  /\ sreq' = [sreq EXCEPT ![r] = [IdleStoreRequest EXCEPT
                                 !.pc = "done", !.op = "create", !.body = body,
                                 !.response = [status |-> 500, error |-> "write_failed",
                                               body |-> <<>>]]]
    /\ UNCHANGED <<project, dataset, runs, writes, req, last, topo, pv,
                   sql, db, listing, chat>>

\* update_variable_library_item up to its write: the item is read and the
\* new version is added to it
UpdateVariableLibraryItem(r, id, body) ==
    /\ MayStart(r)
    /\ IF ~read_item(lib, id).some
       THEN /\ sreq' = [sreq EXCEPT ![r] = [IdleStoreRequest EXCEPT
                           !.pc = "done", !.op = "update", !.id = id, !.body = body,
                           !.response = [status |-> 404, error |-> "not_found",
                                         body |-> <<>>]]]
            /\ clock' = clock
            /\ Logged(r, id, FALSE)
       ELSE \E item \in {read_item(lib, id).v} :
            \E cur \in {CurrentVersionIndex(item)} :
               IF cur = 0
               THEN /\ sreq' = [sreq EXCEPT ![r] = [IdleStoreRequest EXCEPT
                                   !.pc = "done", !.op = "update", !.id = id, !.body = body,
                                   !.response = [status |-> 500, error |-> "corrupted",
                                                 body |-> <<>>]]]
                    /\ clock' = clock
                    /\ Logged(r, id, FALSE)
               ELSE \E t \in ClockReadings(3) :
                       /\ clock' = t[3]
                       /\ wlog' = wlog
                       /\ sreq' = [sreq EXCEPT ![r] = [IdleStoreRequest EXCEPT
                             !.pc = "loaded", !.op = "update", !.id = id, !.body = body,
                             !.read = item,
                             !.doc = [item EXCEPT
                                        !.currentVersionId = VersionId(t[2]),
                                        !.updatedAt = ToDecimal(t[1]),
                                        !.versions = Append(@,
                                            [versionId |-> VersionId(t[2]),
                                             createdAt |-> ToDecimal(t[3]),
                                             data |-> MergedData(body,
                                                         item.versions[cur].data)])]]]
    /\ UNCHANGED <<project, dataset, runs, writes, req, last, topo, pv,
                   sql, db, listing, lib, chat>>

\* rollback_variable_library_item up to its write
RollbackVariableLibraryItem(r, id, version_id) ==
    /\ MayStart(r)
    /\ IF ~read_item(lib, id).some
       THEN /\ sreq' = [sreq EXCEPT ![r] = [IdleStoreRequest EXCEPT
                           !.pc = "done", !.op = "rollback", !.id = id, !.body = version_id,
                           !.response = [status |-> 404, error |-> "not_found",
                                         body |-> <<>>]]]
            /\ clock' = clock
            /\ Logged(r, id, FALSE)
       ELSE \E item \in {read_item(lib, id).v} :
               IF \A k \in 1..Len(item.versions) : item.versions[k].versionId # version_id
               THEN /\ sreq' = [sreq EXCEPT ![r] = [IdleStoreRequest EXCEPT
                                   !.pc = "done", !.op = "rollback", !.id = id,
                                   !.body = version_id,
                                   !.response = [status |-> 400, error |-> "version_not_found",
                                                 body |-> <<>>]]]
                    /\ clock' = clock
                    /\ Logged(r, id, FALSE)
               ELSE \E t \in ClockReadings(1) :
                       /\ clock' = t[1]
                       /\ wlog' = wlog
                       /\ sreq' = [sreq EXCEPT ![r] = [IdleStoreRequest EXCEPT
                             !.pc = "loaded", !.op = "rollback", !.id = id,
                             !.body = version_id, !.read = item,
                             !.doc = [item EXCEPT !.currentVersionId = version_id,
                                                  !.updatedAt = ToDecimal(t[1])]]]
    /\ UNCHANGED <<project, dataset, runs, writes, req, last, topo, pv,
                   sql, db, listing, lib, chat>>

\* clone_variable_library_item up to its write
CloneVariableLibraryItem(r, id) ==
    /\ MayStart(r)
    /\ IF ~read_item(lib, id).some
       THEN /\ sreq' = [sreq EXCEPT ![r] = [IdleStoreRequest EXCEPT
                           !.pc = "done", !.op = "clone", !.id = id,
                           !.response = [status |-> 404, error |-> "not_found",
                                         body |-> <<>>]]]
            /\ clock' = clock
            /\ Logged(r, id, FALSE)
       ELSE \E item \in {read_item(lib, id).v} :
            \E t \in ClockReadings(2) :
               /\ clock' = t[2]
               /\ wlog' = wlog
               /\ sreq' = [sreq EXCEPT ![r] = [IdleStoreRequest EXCEPT
                     !.pc = "loaded", !.op = "clone", !.id = id, !.read = item,
                     !.doc = [item EXCEPT !.id = ItemId(t[1]),
                                          !.createdAt = ToDecimal(t[2]),
                                          !.updatedAt = ToDecimal(t[2])]]]
    /\ UNCHANGED <<project, dataset, runs, writes, req, last, topo, pv,
                   sql, db, listing, lib, chat>>

\* append_messages up to its write
AppendMessages(r, id, messages) ==
    /\ MayStart(r)
    /\ IF ~load_session_file(chat, id).some
       THEN /\ sreq' = [sreq EXCEPT ![r] = [IdleStoreRequest EXCEPT
                           !.pc = "done", !.op = "append", !.id = id, !.body = messages,
                           !.response = [status |-> 404, error |-> "not_found",
                                         body |-> <<>>]]]
            /\ clock' = clock
            /\ Logged(r, id, FALSE)
       ELSE \E s \in {load_session_file(chat, id).v} :
            \E t \in ClockReadings(1) :
               /\ clock' = t[1]
               /\ wlog' = wlog
               /\ sreq' = [sreq EXCEPT ![r] = [IdleStoreRequest EXCEPT
                     !.pc = "loaded", !.op = "append", !.id = id, !.body = messages,
                     !.read = s,
                     !.doc = [s EXCEPT !.messages = @ \o messages,
                                       !.updatedAt = ToDecimal(t[1])]]]
    /\ UNCHANGED <<project, dataset, runs, writes, req, last, topo, pv,
                   sql, db, listing, lib, chat>>

\* the File::create of write_item and write_session in update, rollback,
\* clone and append; wok: the file can be created
WriteCreate(r, wok) ==
    /\ sreq[r].pc = "loaded"
    /\ IF ~wok
       THEN /\ StoreRespond(r, 500, "write_failed", <<>>)
            /\ Logged(r, sreq[r].doc.id, FALSE)
            /\ UNCHANGED <<lib, chat>>
       ELSE /\ sreq' = [sreq EXCEPT ![r].pc = "opened"]
            /\ wlog' = wlog
            /\ IF sreq[r].op = "append"
               THEN lib' = lib /\ chat' = FileCreate(chat, sreq[r].doc.id)
               ELSE chat' = chat /\ lib' = FileCreate(lib, sreq[r].doc.id)
    /\ UNCHANGED <<project, dataset, clock, runs, writes, req, last, topo, pv,
                   sql, db, listing>>

\* the write_all of write_item and write_session, and the response of the
\* handler
WriteAll(r) ==
    /\ sreq[r].pc = "opened"
    /\ StoreRespond(r, IF sreq[r].op \in {"create", "clone"} THEN 201 ELSE 200, "",
                    sreq[r].doc)
    /\ Logged(r, sreq[r].doc.id, TRUE)
    /\ IF sreq[r].op = "append"
       THEN /\ lib' = lib
            /\ chat' = FileWriteAll(chat, sreq[r].doc.id, sreq[r].doc,
                                    PrettySession(sreq[r].doc))
       ELSE /\ chat' = chat
            /\ lib' = FileWriteAll(lib, sreq[r].doc.id, sreq[r].doc,
                                   PrettyItem(sreq[r].doc))
    /\ UNCHANGED <<project, dataset, clock, runs, writes, req, last, topo, pv,
                   sql, db, listing>>

\* the client of a request that has been answered sends the next one
StoreReset(r) ==
    /\ sreq[r].pc = "done"
    /\ sreq' = [sreq EXCEPT ![r] = IdleStoreRequest]
    /\ UNCHANGED <<project, dataset, clock, runs, writes, req, last, topo, pv,
                   sql, db, listing, lib, chat, wlog>>

\* the session "s", written before the requests start
StoredSession ==
    [id |-> <<115>>, name |-> <<83>>,
     messages |-> << [role |-> <<117, 115, 101, 114>>, content |-> <<104, 105>>,
                      createdAt |-> <<57, 57, 57>>] >>,
     updatedAt |-> <<57, 57, 57>>]

SessionFiles == (<<115>> :> FileOf(StoredSession, PrettySession(StoredSession)))

\* the item "var_999", written before the requests start
StoredItem ==
    [id |-> <<118, 97, 114, 95, 57, 57, 57>>, projectId |-> <<112>>, currentVersionId |-> <<118, 95, 57, 57, 57>>,
     createdAt |-> <<57, 57, 57>>, updatedAt |-> <<57, 57, 57>>,
     versions |-> << [versionId |-> <<118, 95, 57, 57, 57>>, createdAt |-> <<57, 57, 57>>,
                      data |-> LibraryData(<<110>>, <<115, 116, 97, 116, 105, 99>>, <<65>>,
                                           None, None, None, <<>>)] >>]

ItemFiles == (<<118, 97, 114, 95, 57, 57, 57>> :> FileOf(StoredItem, PrettyItem(StoredItem)))

\* the body of a create request: n = "A", static
CreateBody ==
    [name |-> <<110>>, type |-> <<115, 116, 97, 116, 105, 99>>, value |-> <<65>>, description |-> None,
     source |-> None, resolver |-> None, tags |-> None]

\* the bodies of update requests: nothing changed, or the value "BB"
UpdateBodies ==
    { [name |-> None, type |-> None, value |-> value, description |-> None,
       source |-> None, resolver |-> None, tags |-> None] : value \in {None, Some(<<66, 66>>)} }

\* the bodies of append requests: the message "x" of the user, the message
\* "y" of the assistant
AppendBodies ==
    { << [role |-> <<117, 115, 101, 114>>, content |-> <<120>>, createdAt |-> <<49, 48, 48, 48>>] >>,
      << [role |-> <<97, 115, 115, 105, 115, 116, 97, 110, 116>>, content |-> <<121>>, createdAt |-> <<49, 48, 48, 48>>] >> }

\* the ids requests name: the item of the file and the items the clock can
\* have named
StoreItemIds == {ItemId(ms) : ms \in (ClockBase - 1)..StoreClockEnd}

StoreVersionIds == {VersionId(ms) : ms \in (ClockBase - 1)..StoreClockEnd}

InitStore ==
    /\ ReplayOff
    /\ topo = TopoOff
    /\ pv = PvOff
    /\ sql = SqlOff
    /\ db = <<>>
    /\ listing = ListingOff
    /\ lib = ItemFiles
    /\ chat = SessionFiles
    /\ sreq = [r \in Requests |-> IdleStoreRequest]
    /\ wlog = <<>>

NextStore ==
    \/ \E r \in Requests, wok \in BOOLEAN : CreateVariableLibraryItem(r, CreateBody, wok)
    \/ \E r \in Requests, id \in StoreItemIds, body \in UpdateBodies :
          UpdateVariableLibraryItem(r, id, body)
    \/ \E r \in Requests, id \in StoreItemIds, version_id \in StoreVersionIds :
          RollbackVariableLibraryItem(r, id, version_id)
    \/ \E r \in Requests, id \in StoreItemIds : CloneVariableLibraryItem(r, id)
    \/ \E r \in Requests, id \in {<<115>>, <<113>>}, messages \in AppendBodies :
          AppendMessages(r, id, messages)
    \/ \E r \in Requests, wok \in BOOLEAN : WriteCreate(r, wok)
    \/ \E r \in Requests : WriteAll(r)
    \/ \E r \in Requests : StoreReset(r)

SpecStore == InitStore /\ [][NextStore]_vars

\* the version ids of an item, in order
VersionIds(item) == [k \in 1..Len(item.versions) |-> item.versions[k].versionId]

\* request r is an update that has been answered with the item it wrote
UpdateSucceeded(r) ==
    /\ sreq[r].pc = "done"
    /\ sreq[r].op = "update"
    /\ sreq[r].response.status = 200

\* C24: every successful update of a variable-library item appends exactly
\* one version, whose id differs from every version id the item already
\* had, leaves the earlier versions unchanged and makes the new version the
\* current one
C24_UpdateAppendsFreshVersion ==
    \A r \in Requests :
        UpdateSucceeded(r) =>
            LET before == sreq[r].read
                after == sreq[r].response.body
                new == after.versions[Len(after.versions)]
            IN  /\ Len(after.versions) = Len(before.versions) + 1
                /\ SubSeq(after.versions, 1, Len(before.versions)) = before.versions
                /\ \A k \in 1..Len(before.versions) :
                      before.versions[k].versionId # new.versionId
                /\ after.currentVersionId = new.versionId

\* requests a and b are two updates of one item, or two appends to one
\* session, that both read the entity before either wrote it, and both
\* have been answered with success
RanConcurrently(a, b) ==
    /\ a # b
    /\ sreq[a].pc = "done" /\ sreq[b].pc = "done"
    /\ sreq[a].op \in {"update", "append"}
    /\ sreq[a].op = sreq[b].op
    /\ sreq[a].id = sreq[b].id
    /\ sreq[a].response.status = 200 /\ sreq[b].response.status = 200
    /\ sreq[a].read = sreq[b].read

\* the file of the entity request r wrote
StoredFile(r) == IF sreq[r].op = "append" THEN chat[sreq[r].id] ELSE lib[sreq[r].id]

\* C30: when two updates of one item, or two appends to one session, run
\* concurrently and both succeed, the stored entity is exactly the document
\* of the request whose file write happened last
C30_LastWriterWins ==
    \A a, b \in Requests :
        RanConcurrently(a, b) =>
            StoredFile(a).doc = Some(sreq[wlog[Len(wlog)].r].doc)

====
